---- MODULE Spec2Model ----
(***************************************************************************)
(* State-machine model of polygon_mesh::core::Mesh<T>                      *)
(* (include/polygon_mesh/core/mesh.hpp, core/types.hpp).                   *)
(*                                                                         *)
(* Sequences are 1-based in TLA+ and 0-based in the code: the element the  *)
(* code stores at index i is element i + 1 of the sequence, and every id   *)
(* is kept 0-based as the code keeps it.  The scalar type T is modelled by *)
(* the integers in T_lowest .. T_max (values a float holds exactly).       *)
(***************************************************************************)
EXTENDS Integers, Sequences, FiniteSets, TLC

VARIABLES vertices_, edges_, faces_, edge_map_, topology_valid_,
          bounding_box_dirty_, bounding_box_, ref, last, issued, files,
          tasks_, stop_, queue_mutex_, condition_, workers_, destructor,
          client, executed,
          loop, threads, invoked,
          blocks_, current_block_, live

\* utils::ThreadPool: its members, the position of each worker thread, of
\* the thread running the destructor and of a client thread in enqueue, and
\* how many times each task has been run.
pool == <<tasks_, stop_, queue_mutex_, condition_, workers_, destructor,
          client, executed>>

\* One call of utils::parallel_for_index: the position of the calling
\* thread, the chunk threads it has started, and how many times func has
\* been invoked for each index.
parallel == <<loop, threads, invoked>>

\* utils::MemoryPool: its members, and the pointers its caller holds.
memory == <<blocks_, current_block_, live>>

utils == <<pool, parallel, memory>>

vars == <<vertices_, edges_, faces_, edge_map_, topology_valid_,
          bounding_box_dirty_, bounding_box_, ref, last, issued, files,
          utils>>

\* What lies outside the mesh object: the record of the ids its calls
\* have returned, the file system, and the utilities.  No member function
\* of Mesh touches them.
outside == <<issued, files, utils>>

\* What lies outside the utilities: the mesh, the record of its calls and
\* the file system.
library == <<vertices_, edges_, faces_, edge_map_, topology_valid_,
             bounding_box_dirty_, bounding_box_, ref, issued, files>>

\* The members an observer of the mesh contents can see (accessors
\* vertices(), edges(), faces() and the edge index behind them).
mesh == <<vertices_, edges_, faces_, edge_map_>>

-----------------------------------------------------------------------------
\* Bounds of the model.

\* Most vertices a mesh of the model holds.
MaxVerts == 3

\* Most faces a mesh of the model holds.
MaxFaces == 3

\* std::numeric_limits<T>::max() and ::lowest() of the modelled scalar.
T_max == 16777216

T_lowest == -T_max

\* The caller holds no reference into vertices_.
NoRef == -1

\* Positions the callers of the model pass to add_vertex and write
\* through a vertex reference (the vertices of the bounding-box test).
Positions == { <<-1, -2, -3>>, <<4, 5, 6>>, <<2, 1, 0>> }

\* Vertex ids callers pass: every valid one and the first invalid one.
VertexIds == 0 .. MaxVerts

\* Index lists callers pass to add_face: too short, valid, with a repeated
\* index, and with an invalid index at each position.
IndexLists ==
    { <<0>>, <<0, 1, 2>>, <<0, 1, 1>>, <<0, MaxVerts, 1>> }

-----------------------------------------------------------------------------
\* types.hpp: BoundingBox<T>

Min(a, b) == IF b < a THEN b ELSE a

Max(a, b) == IF a < b THEN b ELSE a

\* Mutant of reset: the empty box is the box of the origin.
reset_to_origin ==
    [min_point |-> <<0, 0, 0>>, max_point |-> <<0, 0, 0>>]

\* BoundingBox::reset
reset ==
    [min_point |-> <<T_max, T_max, T_max>>,
     max_point |-> <<T_lowest, T_lowest, T_lowest>>]

\* BoundingBox::expand(point)
expand(box, point) ==
    [min_point |-> <<Min(box.min_point[1], point[1]),
                     Min(box.min_point[2], point[2]),
                     Min(box.min_point[3], point[3])>>,
     max_point |-> <<Max(box.max_point[1], point[1]),
                     Max(box.max_point[2], point[2]),
                     Max(box.max_point[3], point[3])>>]

\* The loop of Mesh::compute_bounding_box over the first n vertices.
RECURSIVE expand_all(_, _)
expand_all(vs, n) ==
    IF n = 0 THEN reset ELSE expand(expand_all(vs, n - 1), vs[n].position)

\* Mesh::compute_bounding_box
compute_bounding_box(vs) == expand_all(vs, Len(vs))

-----------------------------------------------------------------------------
\* mesh.hpp: add_vertex

\* Mutant of new_vertex_id: ids counted from 1.
new_vertex_id_from_one(vs) == Len(vs) + 1

\* The id add_vertex gives the new vertex: vertices_.size().
new_vertex_id(vs) == Len(vs)

\* Vector3<T>(0)
Zero3 == <<0, 0, 0>>

\* vertices_.push_back(v) with v.id = id, for Vertex<T>(position, normal).
push_back_vertex_normal(vs, position, normal) ==
    Append(vs, [position |-> position, normal |-> normal,
                id |-> new_vertex_id(vs)])

\* vertices_.push_back(v) with v.id = id, for Vertex<T>(position), whose
\* normal is Vector3<T>(0).
push_back_vertex(vs, position) == push_back_vertex_normal(vs, position, Zero3)

\* Mutant of add_vertex_dirty: add_vertex forgets the dirty flag.
add_vertex_keeps_flag == bounding_box_dirty_

\* What add_vertex assigns to bounding_box_dirty_.
add_vertex_dirty == TRUE

\* A push_back may reallocate the storage: a reference the caller holds
\* either stays valid or is dead, and a dead reference is never used.
after_push_back(r) == {r, NoRef}

\* Mutant of add_vertex: a non-empty array has its last element overwritten
\* and that element's id is returned again.
add_vertex_overwrites(position) ==
    /\ Len(vertices_) < MaxVerts
    /\ vertices_' = IF vertices_ = << >>
                    THEN push_back_vertex(vertices_, position)
                    ELSE [vertices_ EXCEPT ![Len(vertices_)].position = position]
    /\ bounding_box_dirty_' = add_vertex_dirty
    /\ ref' \in after_push_back(ref)
    /\ last' = [op |-> "add_vertex", arg |-> position, status |-> "ok",
                value |-> IF vertices_ = << >> THEN 0 ELSE Len(vertices_) - 1]
    /\ UNCHANGED <<edges_, faces_, edge_map_, topology_valid_, bounding_box_>>

add_vertex(position) ==
    /\ Len(vertices_) < MaxVerts
    /\ vertices_' = push_back_vertex(vertices_, position)
    /\ bounding_box_dirty_' = add_vertex_dirty
    /\ ref' \in after_push_back(ref)
    /\ last' = [op |-> "add_vertex", arg |-> position, status |-> "ok",
                value |-> new_vertex_id(vertices_)]
    /\ UNCHANGED <<edges_, faces_, edge_map_, topology_valid_, bounding_box_>>

-----------------------------------------------------------------------------
\* mesh.hpp: add_face, add_triangle, add_quad

\* Mutant of add_face_check: the index loop runs before the size check.
add_face_check_range_first(vertex_indices, n) ==
    IF \E i \in 1 .. Len(vertex_indices) : vertex_indices[i] >= n
    THEN "OutOfRange"
    ELSE IF Len(vertex_indices) < 3 THEN "InvalidArgument"
         ELSE "ok"

\* The two checks at the head of add_face, in the order the code makes
\* them, against a mesh of n vertices.
add_face_check(vertex_indices, n) ==
    IF Len(vertex_indices) < 3 THEN "InvalidArgument"
    ELSE IF \E i \in 1 .. Len(vertex_indices) : vertex_indices[i] >= n
         THEN "OutOfRange"
         ELSE "ok"

\* faces_.push_back(face) with face.id = faces_.size().
push_back_face(fs, vertex_indices) ==
    Append(fs, [vertices |-> vertex_indices, normal |-> Zero3,
                id |-> Len(fs)])

\* Mutant of faces_after_add_face: the face is pushed before the index
\* loop that rejects it.
faces_pushed_before_range_check(fs, vertex_indices, status) ==
    IF status = "InvalidArgument" THEN fs
    ELSE Append(fs, [vertices |-> vertex_indices, normal |-> Zero3,
                     id |-> Len(fs)])

\* faces_ after add_face ended with `status`.
faces_after_add_face(fs, vertex_indices, status) ==
    IF status = "ok" THEN push_back_face(fs, vertex_indices) ELSE fs

\* add_face: the call of update_edges_for_face is commented out, so
\* edges_ and edge_map_ are left alone.
add_face(vertex_indices) ==
    LET status == add_face_check(vertex_indices, Len(vertices_)) IN
    /\ status = "ok" => Len(faces_) < MaxFaces
    /\ faces_' = faces_after_add_face(faces_, vertex_indices, status)
    /\ last' = [op |-> "add_face", arg |-> vertex_indices, status |-> status,
                value |-> IF status = "ok" THEN Len(faces_) ELSE -1]
    /\ UNCHANGED <<vertices_, edges_, edge_map_, topology_valid_,
                   bounding_box_dirty_, bounding_box_, ref>>

add_triangle(v1, v2, v3) == add_face(<<v1, v2, v3>>)

add_quad(v1, v2, v3, v4) == add_face(<<v1, v2, v3, v4>>)

-----------------------------------------------------------------------------
\* mesh.hpp: clear

\* vertices_ after clear().
clear_vertices(vs) == << >>

\* Mutant of clear_faces: clear() forgets faces_.
clear_keeps_faces(fs) == fs

\* faces_ after clear().
clear_faces(fs) == << >>

\* Mutant of clear_dirty: clear() forgets the dirty flag.
clear_keeps_flag == bounding_box_dirty_

\* What clear() assigns to bounding_box_dirty_.
clear_dirty == TRUE

\* Mesh::empty
empty == Len(vertices_) = 0 /\ Len(faces_) = 0

clear ==
    /\ vertices_' = clear_vertices(vertices_)
    /\ edges_' = << >>
    /\ faces_' = clear_faces(faces_)
    /\ edge_map_' = {}
    /\ topology_valid_' = TRUE
    /\ bounding_box_dirty_' = clear_dirty
    /\ ref' = NoRef
    /\ last' = [op |-> "clear", arg |-> << >>, status |-> "ok", value |-> 0]
    /\ UNCHANGED bounding_box_

-----------------------------------------------------------------------------
\* mesh.hpp: bounding_box

\* The box bounding_box() returns, which is also the cache afterwards.
\* BoundingBox::is_valid
BoundingBox_is_valid(box) ==
    /\ box.min_point[1] <= box.max_point[1]
    /\ box.min_point[2] <= box.max_point[2]
    /\ box.min_point[3] <= box.max_point[3]

bounding_box_value(vs, dirty, cached) ==
    IF dirty THEN compute_bounding_box(vs) ELSE cached

bounding_box ==
    /\ bounding_box_' =
           bounding_box_value(vertices_, bounding_box_dirty_, bounding_box_)
    /\ bounding_box_dirty_' = FALSE
    /\ last' = [op |-> "bounding_box", arg |-> << >>, status |-> "ok",
                value |-> bounding_box_']
    /\ UNCHANGED <<vertices_, edges_, faces_, edge_map_, topology_valid_, ref>>

-----------------------------------------------------------------------------
\* types.hpp: Face<T>, Edge<T>

\* Face::is_valid
is_valid(face) == Len(face.vertices) >= 3

\* Mutant of get_edges: the pair from the last vertex to the first is left
\* out.
get_edges_open(face) ==
    LET vs == face.vertices
        k == Len(vs) IN
    IF k < 3 THEN << >>
    ELSE [i \in 1 .. k - 1 |->
             IF vs[i] > vs[i + 1]
             THEN <<vs[i + 1], vs[i]>> ELSE <<vs[i], vs[i + 1]>>]

\* Face::get_edges: one pair per vertex and its cyclic successor, the
\* smaller index first; none for a face of fewer than 3 vertices.
get_edges(face) ==
    LET vs == face.vertices
        k == Len(vs) IN
    IF k < 3 THEN << >>
    ELSE [i \in 1 .. k |->
             LET v1 == vs[i]
                 v2 == vs[(i % k) + 1] IN
             IF v1 > v2 THEN <<v2, v1>> ELSE <<v1, v2>>]

\* Edge::is_manifold
is_manifold(edge) == Len(edge.adjacent_faces) <= 2

-----------------------------------------------------------------------------
\* mesh.hpp: validate_topology

\* Mutant of has_duplicate_position: the inner loop starts at i + 2.
has_duplicate_position_skip_next(vs) ==
    \E i \in 1 .. Len(vs) : \E j \in (i + 2) .. Len(vs) :
        vs[i].position = vs[j].position

\* The first loop: some i < j with vertices_[i].position ==
\* vertices_[j].position (Vector3::operator== compares x, y, z exactly).
has_duplicate_position(vs) ==
    \E i \in 1 .. Len(vs) : \E j \in (i + 1) .. Len(vs) :
        vs[i].position = vs[j].position

\* The inner loop over one face: a vertex index already in unique_vertices.
has_duplicate_index(face) ==
    \E k \in 1 .. Len(face.vertices) : \E m \in 1 .. (k - 1) :
        face.vertices[m] = face.vertices[k]

\* validate_topology() over the three arrays, check by check in the
\* order of the code.
validate_topology_value(vs, fs, es) ==
    IF has_duplicate_position(vs) THEN FALSE
    ELSE IF \E f \in 1 .. Len(fs) :
                ~is_valid(fs[f]) \/ has_duplicate_index(fs[f]) THEN FALSE
    ELSE IF \E e \in 1 .. Len(es) : ~is_manifold(es[e]) THEN FALSE
    ELSE TRUE

\* Mutant of validate_topology: the query refreshes the (mutable)
\* bounding-box cache on its way.
validate_topology_refreshes_box ==
    /\ last' = [op |-> "validate_topology", arg |-> << >>, status |-> "ok",
                value |-> validate_topology_value(vertices_, faces_, edges_)]
    /\ bounding_box_' = compute_bounding_box(vertices_)
    /\ bounding_box_dirty_' = FALSE
    /\ UNCHANGED <<vertices_, edges_, faces_, edge_map_, topology_valid_, ref>>

validate_topology ==
    /\ last' = [op |-> "validate_topology", arg |-> << >>, status |-> "ok",
                value |-> validate_topology_value(vertices_, faces_, edges_)]
    /\ UNCHANGED <<vertices_, edges_, faces_, edge_map_, topology_valid_,
                   bounding_box_dirty_, bounding_box_, ref>>

-----------------------------------------------------------------------------
\* mesh.hpp: get_vertex (non-const), and the caller's use of the
\* Vertex<T>& it returns

\* What the non-const get_vertex assigns to bounding_box_dirty_ before it
\* returns the reference.
get_vertex_dirty == TRUE

\* Mutant of get_vertex: the dirty flag is set before the range check.
get_vertex_marks_first(id) ==
    /\ bounding_box_dirty_' = TRUE
    /\ IF id >= Len(vertices_)
       THEN /\ last' = [op |-> "get_vertex", arg |-> id,
                        status |-> "OutOfRange", value |-> -1]
            /\ UNCHANGED ref
       ELSE /\ ref' = id
            /\ last' = [op |-> "get_vertex", arg |-> id, status |-> "ok",
                        value |-> vertices_[id + 1]]
    /\ UNCHANGED <<vertices_, edges_, faces_, edge_map_, topology_valid_,
                   bounding_box_>>

get_vertex(id) ==
    IF id >= Len(vertices_)
    THEN /\ last' = [op |-> "get_vertex", arg |-> id,
                     status |-> "OutOfRange", value |-> -1]
         /\ UNCHANGED <<vertices_, edges_, faces_, edge_map_, topology_valid_,
                        bounding_box_dirty_, bounding_box_, ref>>
    ELSE /\ bounding_box_dirty_' = get_vertex_dirty
         /\ ref' = id
         /\ last' = [op |-> "get_vertex", arg |-> id, status |-> "ok",
                     value |-> vertices_[id + 1]]
         /\ UNCHANGED <<vertices_, edges_, faces_, edge_map_, topology_valid_,
                        bounding_box_>>

\* The checked read of element `id` of an array, as the const get_vertex,
\* both get_face overloads and get_edge make it: no member changes.
checked_read(op, array, id) ==
    /\ last' = IF id >= Len(array)
               THEN [op |-> op, arg |-> id, status |-> "OutOfRange",
                     value |-> -1]
               ELSE [op |-> op, arg |-> id, status |-> "ok",
                     value |-> array[id + 1]]
    /\ UNCHANGED <<vertices_, edges_, faces_, edge_map_, topology_valid_,
                   bounding_box_dirty_, bounding_box_, ref>>

\* Mesh::get_vertex(id) const
get_vertex_const(id) == checked_read("get_vertex_const", vertices_, id)

\* Mesh::get_face(id), const and non-const
get_face(id) == checked_read("get_face", faces_, id)

\* Mesh::get_edge(id) const
get_edge(id) == checked_read("get_edge", edges_, id)

\* The caller assigns to .position of the vertex its live reference names.
\* No member function of the mesh runs: no flag changes.
write_position(position) ==
    /\ ref # NoRef
    /\ vertices_' = [vertices_ EXCEPT ![ref + 1].position = position]
    /\ last' = [op |-> "write_position", arg |-> position, status |-> "ok",
                value |-> ref]
    /\ UNCHANGED <<edges_, faces_, edge_map_, topology_valid_,
                   bounding_box_dirty_, bounding_box_, ref>>

-----------------------------------------------------------------------------
\* No id has been returned yet: the greatest VertexId and FaceId returned
\* so far, -1 for none.
NoneIssued ==
    [vertex |-> -1, face |-> -1, vertex_since_clear |-> -1,
     face_since_clear |-> -1]

\* The caller's record of the ids the mesh has returned: the greatest
\* VertexId and FaceId ever, and the greatest since the last clear().
note_vertex(h, id) ==
    [h EXCEPT !.vertex = Max(@, id), !.vertex_since_clear = Max(@, id)]

note_face(h, status, id) ==
    IF status = "ok"
    THEN [h EXCEPT !.face = Max(@, id), !.face_since_clear = Max(@, id)]
    ELSE h

note_clear(h) ==
    [h EXCEPT !.vertex_since_clear = -1, !.face_since_clear = -1]

\* No file has been opened yet.
NoContent == [exists |-> FALSE]

NoFiles == [read |-> {}, written |-> {}, content |-> NoContent]

\* No thread pool and no memory pool has been constructed, and
\* parallel_for_index has not been called.
utils_unused ==
    /\ tasks_ = << >>
    /\ stop_ = FALSE
    /\ queue_mutex_ = 0
    /\ condition_ = {}
    /\ workers_ = << >>
    /\ destructor = "unconstructed"
    /\ client = [pc |-> "idle", task |-> 1, returned |-> {}, thrown |-> {}]
    /\ executed = << >>
    /\ loop = [pc |-> "idle", start |-> 0, end |-> 0, next |-> 0]
    /\ threads = << >>
    /\ invoked = << >>
    /\ blocks_ = << >>
    /\ current_block_ = 0
    /\ live = << >>

-----------------------------------------------------------------------------
\* The mesh after construction: Mesh() and BoundingBox().
Init ==
    /\ vertices_ = << >>
    /\ edges_ = << >>
    /\ faces_ = << >>
    /\ edge_map_ = {}
    /\ topology_valid_ = TRUE
    /\ bounding_box_dirty_ = TRUE
    /\ bounding_box_ = reset
    /\ ref = NoRef
    /\ last = [op |-> "Mesh", arg |-> << >>, status |-> "ok", value |-> 0]
    /\ issued = NoneIssued
    /\ files = NoFiles
    /\ utils_unused

\* A caller that builds a mesh and queries it.
Next ==
    \/ \E p \in Positions : add_vertex(p) /\ UNCHANGED outside
    \/ \E ix \in IndexLists : add_face(ix) /\ UNCHANGED outside
    \/ \E c \in {2, MaxVerts} : add_triangle(0, 1, c) /\ UNCHANGED outside
    \/ \E d \in {0, MaxVerts} : add_quad(0, 1, 2, d) /\ UNCHANGED outside
    \/ clear /\ UNCHANGED outside
    \/ bounding_box /\ UNCHANGED outside
    \/ validate_topology /\ UNCHANGED outside

Spec == Init /\ [][Next]_vars

\* A caller that adds vertices, reads the bounding box, and moves vertices
\* through the references the non-const get_vertex returns.
NextRef ==
    \/ \E p \in Positions : add_vertex(p) /\ UNCHANGED outside
    \/ clear /\ UNCHANGED outside
    \/ bounding_box /\ UNCHANGED outside
    \/ \E id \in VertexIds : get_vertex(id) /\ UNCHANGED outside
    \/ \E p \in Positions : write_position(p) /\ UNCHANGED outside

SpecRef == Init /\ [][NextRef]_vars

\* Positions of the callers that do not look at the geometry.
TwoPositions == { <<-1, -2, -3>>, <<4, 5, 6>> }

\* Face and edge ids callers pass: every valid one and the first invalid.
FaceIds == 0 .. MaxFaces

\* A caller that builds a mesh and reads its elements by id.
NextAccess ==
    \/ \E p \in TwoPositions : add_vertex(p) /\ UNCHANGED outside
    \/ \E ix \in IndexLists : add_face(ix) /\ UNCHANGED outside
    \/ clear /\ UNCHANGED outside
    \/ bounding_box /\ UNCHANGED outside
    \/ \E id \in VertexIds : get_vertex(id) /\ UNCHANGED outside
    \/ \E id \in VertexIds : get_vertex_const(id) /\ UNCHANGED outside
    \/ \E id \in FaceIds : get_face(id) /\ UNCHANGED outside
    \/ \E id \in FaceIds : get_edge(id) /\ UNCHANGED outside

SpecAccess == Init /\ [][NextAccess]_vars

\* A caller that builds, clears and rebuilds one mesh and keeps a record of
\* every id the mesh returns.
NextIds ==
    \/ \E p \in TwoPositions :
           /\ add_vertex(p)
           /\ issued' = note_vertex(issued, last'.value)
           /\ UNCHANGED <<files, utils>>
    \/ \E ix \in IndexLists :
           /\ add_face(ix)
           /\ issued' = note_face(issued, last'.status, last'.value)
           /\ UNCHANGED <<files, utils>>
    \/ /\ clear
       /\ issued' = note_clear(issued)
       /\ UNCHANGED <<files, utils>>

SpecIds == Init /\ [][NextIds]_vars

-----------------------------------------------------------------------------
\* Geometry.  A value of the scalar type T is represented in one of two
\* ways.  Coordinates of positions, and the sums and products formed from
\* them, are whole numbers and are kept as integers.  The results of a square
\* root or of a division (lengths, normals, areas, volumes) are kept in
\* fixed point: the integer n stands for n / Unit.

\* Fixed-point resolution of the non-integral T values.
Unit == 100

\* Vector3::is_zero compares with epsilon = 1 / EpsilonInverse.
EpsilonInverse == 1000000

Abs(a) == IF a < 0 THEN -a ELSE a

\* Division of T values, rounded toward zero.
Div(a, b) == IF a < 0 THEN -((-a) \div b) ELSE a \div b

RECURSIVE sqrt_between(_, _, _)
sqrt_between(n, lo, hi) ==
    IF lo >= hi
    THEN lo
    ELSE LET mid == (lo + hi + 1) \div 2 IN
         IF mid * mid <= n
         THEN sqrt_between(n, mid, hi)
         ELSE sqrt_between(n, lo, mid - 1)

\* std::sqrt, rounded down; the lengths that occur stay below 4 * Unit * Unit.
sqrt(n) == sqrt_between(n, 0, Min(n, 4 * Unit * Unit))

\* Vector3 operators
plus(a, b) == <<a[1] + b[1], a[2] + b[2], a[3] + b[3]>>

minus(a, b) == <<a[1] - b[1], a[2] - b[2], a[3] - b[3]>>

negated(a) == <<-a[1], -a[2], -a[3]>>

dot(a, b) == a[1] * b[1] + a[2] * b[2] + a[3] * b[3]

cross(a, b) ==
    <<a[2] * b[3] - a[3] * b[2],
      a[3] * b[1] - a[1] * b[3],
      a[1] * b[2] - a[2] * b[1]>>

length_squared(a) == dot(a, a)

\* Vector3::length of a vector of whole numbers, in fixed point.
length(a) == sqrt(length_squared(a) * Unit * Unit)

\* Vector3::normalize of a vector of whole numbers, in fixed point.
normalize(a) ==
    LET len == length(a) IN
    IF len = 0
    THEN Zero3
    ELSE <<Div(a[1] * Unit * Unit, len),
           Div(a[2] * Unit * Unit, len),
           Div(a[3] * Unit * Unit, len)>>

\* Vector3::normalize_in_place of a fixed-point vector.
normalize_in_place(a) ==
    LET len == sqrt(length_squared(a)) IN
    IF len # 0
    THEN <<Div(a[1] * Unit, len), Div(a[2] * Unit, len),
           Div(a[3] * Unit, len)>>
    ELSE a

\* Vector3::is_zero() of a fixed-point vector, with the default epsilon.
is_zero(a) ==
    /\ Abs(a[1]) * EpsilonInverse < Unit
    /\ Abs(a[2]) * EpsilonInverse < Unit
    /\ Abs(a[3]) * EpsilonInverse < Unit

\* Face::has_normal
has_normal(face) == ~is_zero(face.normal)

\* Face::is_triangle
is_triangle(face) == Len(face.vertices) = 3

\* The position of the vertex a face names at (0-based) place i.
position_at(vs, face, i) == vs[face.vertices[i + 1] + 1].position

\* Mutant of newell: the cross product with its operands exchanged.
newell_clockwise(vs, face, i) ==
    cross(minus(position_at(vs, face, 2), position_at(vs, face, 0)),
          minus(position_at(vs, face, 1), position_at(vs, face, 0)))

\* Mesh::compute_face_normal, the loop of Newell's method from place i on.
RECURSIVE newell(_, _, _)
newell(vs, face, i) ==
    IF i >= Len(face.vertices)
    THEN Zero3
    ELSE LET next == (i + 1) % Len(face.vertices)
             v1 == position_at(vs, face, i)
             v2 == position_at(vs, face, next) IN
         plus(<<(v1[2] - v2[2]) * (v1[3] + v2[3]),
                (v1[3] - v2[3]) * (v1[1] + v2[1]),
                (v1[1] - v2[1]) * (v1[2] + v2[2])>>,
              newell(vs, face, i + 1))

\* Mesh::compute_face_normal: the normal it stores in the face.
compute_face_normal(vs, face) ==
    IF Len(face.vertices) < 3
    THEN Zero3
    ELSE normalize(newell(vs, face, 0))

\* Mesh::compute_face_normals: the faces after the loop.
face_normals_computed(vs, fs) ==
    [i \in 1 .. Len(fs) |->
        [fs[i] EXCEPT !.normal = compute_face_normal(vs, fs[i])]]

\* Mutant of reset_normals: the vertex normals are not reset.
keep_normals(vs) == vs

\* Mesh::compute_vertex_normals, first loop.
reset_normals(vs) == [i \in 1 .. Len(vs) |-> [vs[i] EXCEPT !.normal = Zero3]]

\* Mesh::compute_vertex_normals, inner loop over the vertices of one face.
RECURSIVE add_to_vertices(_, _, _)
add_to_vertices(vs, vids, normal) ==
    IF vids = << >>
    THEN vs
    ELSE add_to_vertices(
             [vs EXCEPT ![Head(vids) + 1].normal = plus(@, normal)],
             Tail(vids), normal)

\* Mesh::compute_vertex_normals, second loop.
RECURSIVE accumulate_face_normals(_, _)
accumulate_face_normals(vs, fs) ==
    IF fs = << >>
    THEN vs
    ELSE accumulate_face_normals(
             IF ~has_normal(Head(fs))
             THEN vs
             ELSE add_to_vertices(vs, Head(fs).vertices, Head(fs).normal),
             Tail(fs))

\* Mesh::compute_vertex_normals, third loop.
normals_normalized(vs) ==
    [i \in 1 .. Len(vs) |->
        [vs[i] EXCEPT !.normal = normalize_in_place(@)]]

\* Mesh::compute_vertex_normals: the vertices after the three loops.
vertex_normals_computed(vs, fs) ==
    normals_normalized(accumulate_face_normals(reset_normals(vs), fs))

compute_face_normals ==
    /\ faces_' = face_normals_computed(vertices_, faces_)
    /\ last' = [op |-> "compute_face_normals", arg |-> << >>,
                status |-> "ok", value |-> 0]
    /\ UNCHANGED <<vertices_, edges_, edge_map_, topology_valid_,
                   bounding_box_dirty_, bounding_box_, ref>>

compute_vertex_normals ==
    /\ vertices_' = vertex_normals_computed(vertices_, faces_)
    /\ last' = [op |-> "compute_vertex_normals", arg |-> << >>,
                status |-> "ok", value |-> 0]
    /\ UNCHANGED <<edges_, faces_, edge_map_, topology_valid_,
                   bounding_box_dirty_, bounding_box_, ref>>

compute_normals ==
    /\ faces_' = face_normals_computed(vertices_, faces_)
    /\ vertices_' = vertex_normals_computed(vertices_, faces_')
    /\ last' = [op |-> "compute_normals", arg |-> << >>,
                status |-> "ok", value |-> 0]
    /\ UNCHANGED <<edges_, edge_map_, topology_valid_, bounding_box_dirty_,
                   bounding_box_, ref>>

\* Mesh::compute_triangle_area
compute_triangle_area(vs, face) ==
    IF ~is_triangle(face)
    THEN 0
    ELSE LET v0 == position_at(vs, face, 0)
             v1 == position_at(vs, face, 1)
             v2 == position_at(vs, face, 2) IN
         Div(length(cross(minus(v1, v0), minus(v2, v0))), 2)

\* Face<T>({a, b, c}): a face that is in no mesh.
Face(vertex_indices) ==
    [vertices |-> vertex_indices, normal |-> Zero3, id |-> -1]

\* Mesh::surface_area, the loop over the fan of a non-triangle from i on.
RECURSIVE fan_area(_, _, _)
fan_area(vs, face, i) ==
    IF i >= Len(face.vertices) - 1
    THEN 0
    ELSE compute_triangle_area(
             vs, Face(<<face.vertices[1], face.vertices[i + 1],
                        face.vertices[i + 2]>>))
         + fan_area(vs, face, i + 1)

\* Mutant of face_area: a face that is not a triangle adds nothing.
face_area_of_triangles_only(vs, face) == compute_triangle_area(vs, face)

\* Mesh::surface_area, the body of the loop over the faces.
face_area(vs, face) ==
    IF is_triangle(face)
    THEN compute_triangle_area(vs, face)
    ELSE fan_area(vs, face, 1)

RECURSIVE surface_area_value(_, _)
surface_area_value(vs, fs) ==
    IF fs = << >>
    THEN 0
    ELSE face_area(vs, Head(fs)) + surface_area_value(vs, Tail(fs))

surface_area ==
    /\ last' = [op |-> "surface_area", arg |-> << >>, status |-> "ok",
                value |-> surface_area_value(vertices_, faces_)]
    /\ UNCHANGED <<vertices_, edges_, faces_, edge_map_, topology_valid_,
                   bounding_box_dirty_, bounding_box_, ref>>

\* Mesh::volume, the loop over the fan of one face from i on.
RECURSIVE fan_volume(_, _, _)
fan_volume(vs, face, i) ==
    IF i >= Len(face.vertices) - 1
    THEN 0
    ELSE dot(position_at(vs, face, 0),
             cross(position_at(vs, face, i), position_at(vs, face, i + 1)))
         + fan_volume(vs, face, i + 1)

\* Mesh::volume, the loop over the faces: six times the signed volume.
RECURSIVE volume_sum(_, _)
volume_sum(vs, fs) ==
    IF fs = << >>
    THEN 0
    ELSE (IF Len(Head(fs).vertices) < 3 THEN 0 ELSE fan_volume(vs, Head(fs), 1))
         + volume_sum(vs, Tail(fs))

\* Mutant of volume_value: the sign of the sum is kept.
volume_value_signed(vs, fs) == Div(volume_sum(vs, fs) * Unit, 6)

\* Mesh::volume: the value it returns.
volume_value(vs, fs) == Div(Abs(volume_sum(vs, fs)) * Unit, 6)

volume ==
    /\ last' = [op |-> "volume", arg |-> << >>, status |-> "ok",
                value |-> volume_value(vertices_, faces_)]
    /\ UNCHANGED <<vertices_, edges_, faces_, edge_map_, topology_valid_,
                   bounding_box_dirty_, bounding_box_, ref>>

\* The meshes whose geometry is computed.  Each is built by add_vertex and
\* add_face calls, given here by their arguments.
RECURSIVE with_vertices(_, _)
with_vertices(vs, arguments) ==
    IF arguments = << >>
    THEN vs
    ELSE with_vertices(
             push_back_vertex_normal(vs, Head(arguments)[1],
                                     Head(arguments)[2]),
             Tail(arguments))

RECURSIVE with_faces(_, _)
with_faces(fs, arguments) ==
    IF arguments = << >>
    THEN fs
    ELSE with_faces(push_back_face(fs, Head(arguments)), Tail(arguments))

built(vertex_arguments, face_arguments) ==
    [vertices |-> with_vertices(<< >>, vertex_arguments),
     faces |-> with_faces(<< >>, face_arguments)]

\* add_vertex(position) for each position of a list.
positions_only(ps) == [i \in 1 .. Len(ps) |-> <<ps[i], Zero3>>]

\* Corners of the triangles: the unit triangle of the tests, two more points
\* off its plane and on its first edge's line.
GeomPoints ==
    { <<0, 0, 0>>, <<1, 0, 0>>, <<0, 1, 0>>, <<0, 0, 1>>, <<2, 0, 0>> }

\* Normals a caller passes to add_vertex(position, normal): none, or +x.
SuppliedNormals == { Zero3, <<Unit, 0, 0>> }

\* The faces put on three vertices: one triangle, the triangle and its
\* reverse, or the triangle and a face that repeats a vertex.
TriangleFaceLists ==
    { << <<0, 1, 2>> >>,
      << <<0, 1, 2>>, <<2, 1, 0>> >>,
      << <<0, 1, 2>>, <<0, 1, 1>> >> }

TriangleMeshes ==
    { built(<< <<p, n>>, <<q, Zero3>>, <<r, Zero3>> >>, fl) :
        <<p, q, r>> \in { t \in GeomPoints \X GeomPoints \X GeomPoints :
                            t[1] # t[2] /\ t[1] # t[3] /\ t[2] # t[3] },
        n \in SuppliedNormals,
        fl \in TriangleFaceLists }

\* The cube of test_complex_mesh.
CubePositions ==
    << <<-1, -1, -1>>, <<1, -1, -1>>, <<1, 1, -1>>, <<-1, 1, -1>>,
       <<-1, -1, 1>>, <<1, -1, 1>>, <<1, 1, 1>>, <<-1, 1, 1>> >>

CubeTriangles ==
    << <<0, 1, 2>>, <<0, 2, 3>>, <<4, 6, 5>>, <<4, 7, 6>>,
       <<0, 3, 7>>, <<0, 7, 4>>, <<1, 5, 6>>, <<1, 6, 2>>,
       <<3, 2, 6>>, <<3, 6, 7>>, <<0, 4, 5>>, <<0, 5, 1>> >>

\* The same cube with each pair of triangles joined into the quad whose fan
\* they are.
CubeQuads ==
    << <<0, 1, 2, 3>>, <<4, 7, 6, 5>>, <<0, 3, 7, 4>>,
       <<1, 5, 6, 2>>, <<3, 2, 6, 7>>, <<0, 4, 5, 1>> >>

CubeMesh == built(positions_only(CubePositions), CubeTriangles)

CubeQuadMesh == built(positions_only(CubePositions), CubeQuads)

\* A square in the XY plane and a vertex no face uses, as one quad and as
\* the two triangles of the quad's fan.
SquarePositions ==
    << <<0, 0, 0>>, <<2, 0, 0>>, <<2, 2, 0>>, <<0, 2, 0>>, <<1, 1, 1>> >>

SquareQuadMesh == built(positions_only(SquarePositions), << <<0, 1, 2, 3>> >>)

SquareFanMesh ==
    built(positions_only(SquarePositions), << <<0, 1, 2>>, <<0, 2, 3>> >>)

\* Two faces that meet in vertex 0, one of which names that vertex twice:
\* add_quad(0, 1, 2, 0) and add_triangle(0, 1, 3).
RepeatedCornerMesh ==
    built(positions_only(
              << <<0, 0, 0>>, <<1, 0, 0>>, <<0, 1, 0>>, <<0, 0, 1>> >>),
          << <<0, 1, 2, 0>>, <<0, 1, 3>> >>)

GeomMeshes ==
    TriangleMeshes \cup
        { CubeMesh, CubeQuadMesh, SquareQuadMesh, SquareFanMesh,
          RepeatedCornerMesh }

\* A mesh that has been built and whose geometry has not been queried yet.
InitGeom ==
    /\ \E m \in GeomMeshes :
           /\ vertices_ = m.vertices
           /\ faces_ = m.faces
    /\ edges_ = << >>
    /\ edge_map_ = {}
    /\ topology_valid_ = TRUE
    /\ bounding_box_dirty_ = TRUE
    /\ bounding_box_ = reset
    /\ ref = NoRef
    /\ last = [op |-> "add_face", arg |-> faces_[Len(faces_)].vertices,
               status |-> "ok", value |-> Len(faces_) - 1]
    /\ issued = NoneIssued
    /\ files = NoFiles
    /\ utils_unused

NextGeom ==
    \/ compute_face_normals /\ UNCHANGED outside
    \/ compute_vertex_normals /\ UNCHANGED outside
    \/ compute_normals /\ UNCHANGED outside
    \/ surface_area /\ UNCHANGED outside
    \/ volume /\ UNCHANGED outside

SpecGeom == InitGeom /\ [][NextGeom]_vars

-----------------------------------------------------------------------------
\* File input and output.  A path is a sequence of characters.

\* How many files the callers open for reading, and for writing.
MaxOpens == 2

\* std::string::npos is the greatest size_t; as npos + 1 wraps to 0 it is
\* represented by the integer it is congruent to.
npos == -1

UpperCase == <<"O", "B", "J", "P", "L", "Y", "S", "T", "F">>

LowerCase == <<"o", "b", "j", "p", "l", "y", "s", "t", "f">>

\* ::tolower
tolower(c) ==
    IF \E i \in 1 .. Len(UpperCase) : UpperCase[i] = c
    THEN LowerCase[CHOOSE i \in 1 .. Len(UpperCase) : UpperCase[i] = c]
    ELSE c

\* std::transform(begin, end, begin, ::tolower)
transform_tolower(str) == [i \in 1 .. Len(str) |-> tolower(str[i])]

\* std::string::find_last_of(ch): the 0-based place of the last ch, or npos.
find_last_of(str, ch) ==
    IF \E i \in 1 .. Len(str) : str[i] = ch
    THEN (CHOOSE i \in 1 .. Len(str) :
              /\ str[i] = ch
              /\ \A j \in i + 1 .. Len(str) : str[j] # ch) - 1
    ELSE npos

\* std::string::substr(pos)
substr(str, pos) == SubSeq(str, pos + 1, Len(str))

\* io::detect_format
detect_format(filepath) ==
    LET extension ==
            transform_tolower(
                substr(filepath, find_last_of(filepath, ".") + 1)) IN
    CASE extension = <<"o", "b", "j">> -> "OBJ"
      [] extension = <<"p", "l", "y">> -> "PLY"
      [] extension = <<"s", "t", "l">> -> "STL"
      [] extension = <<"o", "f", "f">> -> "OFF"
      [] OTHER -> "UNKNOWN"

\* io::load_ply opens the file for reading and either returns the mesh it
\* parsed or throws.
load_ply == { [status |-> "ok", value |-> "mesh"],
              [status |-> "IOFailure", value |-> "none"] }

\* io::load_obj, the same for the OBJ format.
load_obj == { [status |-> "ok", value |-> "mesh"],
              [status |-> "IOFailure", value |-> "none"] }

\* io::save_ply opens the file for writing and returns whether the mesh was
\* written.
save_ply == { [status |-> "ok", value |-> TRUE],
              [status |-> "ok", value |-> FALSE] }

\* io::save_obj, the same for the OBJ format.
save_obj == { [status |-> "ok", value |-> TRUE],
              [status |-> "ok", value |-> FALSE] }

\* The throw of load_mesh and save_mesh.
unsupported == [status |-> "UnsupportedFormat", value |-> "none"]

\* io::load_mesh
load_mesh(filepath) ==
    LET format == detect_format(filepath) IN
    /\ IF format \in {"OBJ", "PLY"}
       THEN /\ filepath \notin files.read
                => Cardinality(files.read) < MaxOpens
            /\ files' = [files EXCEPT !.read = @ \cup {filepath}]
            /\ \E outcome \in (IF format = "OBJ" THEN load_obj ELSE load_ply) :
                   last' = [op |-> "load_mesh", arg |-> filepath,
                            status |-> outcome.status,
                            value |-> outcome.value]
       ELSE /\ files' = files
            /\ last' = [op |-> "load_mesh", arg |-> filepath,
                        status |-> unsupported.status,
                        value |-> unsupported.value]
    /\ UNCHANGED <<vertices_, edges_, faces_, edge_map_, topology_valid_,
                   bounding_box_dirty_, bounding_box_, ref, issued>>

\* io::save_mesh
save_mesh(filepath) ==
    LET format == detect_format(filepath) IN
    /\ IF format \in {"OBJ", "PLY"}
       THEN /\ filepath \notin files.written
                => Cardinality(files.written) < MaxOpens
            /\ files' = [files EXCEPT !.written = @ \cup {filepath}]
            /\ \E outcome \in (IF format = "OBJ" THEN save_obj ELSE save_ply) :
                   last' = [op |-> "save_mesh", arg |-> filepath,
                            status |-> outcome.status,
                            value |-> outcome.value]
       ELSE /\ files' = files
            /\ last' = [op |-> "save_mesh", arg |-> filepath,
                        status |-> unsupported.status,
                        value |-> unsupported.value]
    /\ UNCHANGED <<vertices_, edges_, faces_, edge_map_, topology_valid_,
                   bounding_box_dirty_, bounding_box_, ref, issued>>

\* The paths callers pass: each known extension, in lower case and not, an
\* unknown and an empty extension, and names without any extension.
Paths ==
    { <<"a", ".", "o", "b", "j">>,
      <<"a", ".", "O", "B", "J">>,
      <<"a", ".", "P", "l", "y">>,
      <<"a", ".", "p", "l", "y">>,
      <<"a", ".", "s", "t", "l">>,
      <<"a", ".", "S", "T", "L">>,
      <<"a", ".", "o", "f", "f">>,
      <<"a", ".", "t", "x", "t">>,
      <<"a", ".">>,
      <<"a">>,
      <<"p", "l", "y">>,
      <<"O", "B", "J">>,
      <<"s", "t", "l">>,
      <<"a", ".", "b", "/", "o", "b", "j">>,
      <<"a", ".", "o", "b", "j", ".", "s", "t", "l">>,
      <<".", "p", "l", "y">> }

NextIO ==
    \/ \E filepath \in Paths : load_mesh(filepath) /\ UNCHANGED utils
    \/ \E filepath \in Paths : save_mesh(filepath) /\ UNCHANGED utils

SpecIO == Init /\ [][NextIO]_vars

-----------------------------------------------------------------------------
\* The PLY format.  The content of the file the caller saves to and loads
\* from is files.content: whether the file exists, its first line, the
\* format and the elements its header declares, and the lines after the
\* header, each the sequence of the numbers operator>> extracts from it up
\* to its first token that is not a number.

\* The precision of a std::ostream: significant digits of operator<<(float).
Precision == 6

RECURSIVE TenTo(_)
TenTo(n) == IF n = 0 THEN 1 ELSE 10 * TenTo(n - 1)

\* The magnitude a rounded to a multiple of scale, ties to even, with scale
\* the least power of ten that leaves no more than Precision digits.
RECURSIVE rounded(_, _)
rounded(a, scale) ==
    IF a >= TenTo(Precision) * scale
    THEN rounded(a, 10 * scale)
    ELSE LET q == a \div scale
             r == a % scale IN
         IF 2 * r > scale \/ (2 * r = scale /\ q % 2 = 1)
         THEN (q + 1) * scale
         ELSE q * scale

\* file << x for a T value x: the number a reader parses from the text.
printed(x) == IF x < 0 THEN -rounded(-x, 1) ELSE rounded(x, 1)

\* PLYLoader::write_header: the elements declared.
write_header(vs, fs) ==
    << [name |-> "vertex", count |-> Len(vs),
        properties |-> IF \E i \in 1 .. Len(vs) : has_normal(vs[i])
                       THEN <<"x", "y", "z", "nx", "ny", "nz">>
                       ELSE <<"x", "y", "z">>],
       [name |-> "face", count |-> Len(fs),
        properties |-> <<"vertex_indices">>] >>

\* PLYLoader::write_ascii_data: the lines of the vertices, then of the faces.
write_ascii_data(vs, fs) ==
    LET write_normals == \E i \in 1 .. Len(vs) : has_normal(vs[i])
        xyz(v) == <<printed(v[1]), printed(v[2]), printed(v[3])>> IN
    [i \in 1 .. Len(vs) |->
        xyz(vs[i].position)
            \o (IF write_normals THEN xyz(vs[i].normal) ELSE << >>)]
    \o [i \in 1 .. Len(fs) |-> <<Len(fs[i].vertices)>> \o fs[i].vertices]

\* PLYLoader::save: the file it writes.  write_binary_data writes the data
\* as write_ascii_data does, under the header of the binary format.
written(vs, fs, format) ==
    [exists |-> TRUE, magic |-> "ply", format |-> format,
     elements |-> write_header(vs, fs), data |-> write_ascii_data(vs, fs)]

\* The element of a header with the given name, or none.
element_named(elements, name) ==
    IF \E i \in 1 .. Len(elements) : elements[i].name = name
    THEN elements[CHOOSE i \in 1 .. Len(elements) : elements[i].name = name]
    ELSE [name |-> "none", count |-> 0, properties |-> << >>]

\* The 0-based place of a property in an element, or -1.
property_index(element, name) ==
    IF \E i \in 1 .. Len(element.properties) : element.properties[i] = name
    THEN (CHOOSE i \in 1 .. Len(element.properties) :
              element.properties[i] = name) - 1
    ELSE -1

\* PLYLoader::read_vertices: the arguments of the add_vertex calls made for
\* the lines given, in the ASCII format.  A line with too few numbers is
\* skipped.
RECURSIVE read_vertices(_, _)
read_vertices(element, lines) ==
    IF lines = << >>
    THEN << >>
    ELSE LET line == Head(lines)
             size == Len(element.properties)
             x_idx == property_index(element, "x")
             nx_idx == property_index(element, "nx")
             complete == Len(line) >= size IN
         (IF complete /\ x_idx >= 0
          THEN << <<SubSeq(line, x_idx + 1, x_idx + 3),
                    IF nx_idx >= 0
                    THEN SubSeq(line, nx_idx + 1, nx_idx + 3)
                    ELSE Zero3>> >>
          ELSE << >>)
         \o read_vertices(element, Tail(lines))

\* PLYLoader::read_faces: the faces after the add_triangle and add_face
\* calls made for the lines given, or the error add_face throws.
RECURSIVE read_faces(_, _, _)
read_faces(vs, fs, lines) ==
    IF lines = << >>
    THEN [status |-> "ok", faces |-> fs]
    ELSE LET line == Head(lines)
             count == IF line # << >> THEN line[1] ELSE 0
             valid == /\ count >= 3
                      /\ Len(line) >= count + 1
                      /\ \A j \in 2 .. count + 1 : line[j] >= 0
             vertex_indices == SubSeq(line, 2, count + 1) IN
         IF ~valid
         THEN read_faces(vs, fs, Tail(lines))
         ELSE IF add_face_check(vertex_indices, Len(vs)) # "ok"
         THEN [status |-> add_face_check(vertex_indices, Len(vs)),
               faces |-> fs]
         ELSE read_faces(vs, push_back_face(fs, vertex_indices), Tail(lines))

\* The first n elements of a sequence, all of them when it is shorter.
first_lines(lines, n) == SubSeq(lines, 1, Min(n, Len(lines)))

\* PLYLoader::load: the mesh returned or the error thrown.  In a binary
\* format no line is read and every declared vertex is the zero vector.
load(file) ==
    LET failure(status) == [status |-> status, value |-> "none"]
        vertex_element == element_named(file.elements, "vertex")
        face_element == element_named(file.elements, "face")
        vertex_lines == first_lines(file.data, vertex_element.count)
        vs == with_vertices(
                  << >>,
                  IF file.format = "ascii"
                  THEN read_vertices(vertex_element, vertex_lines)
                  ELSE [i \in 1 .. vertex_element.count |-> <<Zero3, Zero3>>])
        face_lines ==
            IF file.format = "ascii"
            THEN first_lines(
                     SubSeq(file.data, Len(vertex_lines) + 1, Len(file.data)),
                     face_element.count)
            ELSE << >>
        faces_read == read_faces(vs, << >>, face_lines) IN
    IF ~file.exists THEN failure("IOFailure")
    ELSE IF file.magic # "ply" THEN failure("IOFailure")
    ELSE IF vertex_element.name = "none" THEN failure("IOFailure")
    ELSE IF faces_read.status # "ok" THEN failure(faces_read.status)
    ELSE [status |-> "ok",
          value |-> [vertices |-> vs, faces |-> faces_read.faces]]

\* Formats a caller passes to save_ply; ASCII is the default.
Formats == {"ascii", "binary_little_endian"}

\* io::save_ply on the mesh: false when the file cannot be opened.
PLYLoader_save(format) ==
    /\ \/ /\ files' = [files EXCEPT
                          !.content = written(vertices_, faces_, format)]
          /\ last' = [op |-> "save_ply", arg |-> format, status |-> "ok",
                      value |-> TRUE]
       \/ /\ files' = files
          /\ last' = [op |-> "save_ply", arg |-> format, status |-> "ok",
                      value |-> FALSE]
    /\ UNCHANGED <<vertices_, edges_, faces_, edge_map_, topology_valid_,
                   bounding_box_dirty_, bounding_box_, ref, issued>>

\* io::load_ply of the file.
PLYLoader_load ==
    /\ last' = [op |-> "load_ply", arg |-> << >>,
                status |-> load(files.content).status,
                value |-> load(files.content).value]
    /\ UNCHANGED <<vertices_, edges_, faces_, edge_map_, topology_valid_,
                   bounding_box_dirty_, bounding_box_, ref, issued, files>>

\* What can happen to a saved file before it is loaded: it is removed, its
\* first line or its vertex element is lost, its last line is cut off, or
\* its first line loses its first number or starts with a garbled token.
damaged(file) ==
    { NoContent,
      [file EXCEPT !.magic = "pl"],
      [file EXCEPT !.elements = Tail(@)] }
    \cup (IF file.data = << >>
          THEN {}
          ELSE { [file EXCEPT !.data = SubSeq(@, 1, Len(@) - 1)],
                 [file EXCEPT !.data[1] = Tail(@)],
                 [file EXCEPT !.data[1] = << >>] })

file_damaged ==
    /\ last.op = "save_ply"
    /\ last.value = TRUE
    /\ \E file \in damaged(files.content) :
           files' = [files EXCEPT !.content = file]
    /\ last' = [op |-> "file_damaged", arg |-> << >>, status |-> "ok",
                value |-> 0]
    /\ UNCHANGED <<vertices_, edges_, faces_, edge_map_, topology_valid_,
                   bounding_box_dirty_, bounding_box_, ref, issued>>

\* The meshes saved: none, vertices only, the unit triangle, a triangle
\* with a coordinate of seven digits, and a quad with a supplied normal.
PlyMeshes ==
    { built(<< >>, << >>),
      built(positions_only(<< <<0, 0, 0>>, <<1, 0, 0>> >>), << >>),
      built(positions_only(<< <<0, 0, 0>>, <<1, 0, 0>>, <<0, 1, 0>> >>),
            << <<0, 1, 2>> >>),
      built(positions_only(<< <<0, 0, 0>>, <<1234567, 0, 0>>, <<0, 1, 0>> >>),
            << <<0, 1, 2>> >>),
      built(<< <<SquarePositions[1], <<0, 0, Unit>>>>,
               <<SquarePositions[2], Zero3>>, <<SquarePositions[3], Zero3>>,
               <<SquarePositions[4], Zero3>> >>,
            << <<0, 1, 2, 3>>, <<0, 2, 1>> >>) }

InitPly ==
    /\ \E m \in PlyMeshes :
           /\ vertices_ = m.vertices
           /\ faces_ = m.faces
    /\ edges_ = << >>
    /\ edge_map_ = {}
    /\ topology_valid_ = TRUE
    /\ bounding_box_dirty_ = TRUE
    /\ bounding_box_ = reset
    /\ ref = NoRef
    /\ last = [op |-> "Mesh", arg |-> << >>, status |-> "ok", value |-> 0]
    /\ issued = NoneIssued
    /\ files = NoFiles
    /\ utils_unused

NextPly ==
    \/ \E format \in Formats : PLYLoader_save(format) /\ UNCHANGED utils
    \/ PLYLoader_load /\ UNCHANGED utils
    \/ file_damaged /\ UNCHANGED utils

SpecPly == InitPly /\ [][NextPly]_vars

-----------------------------------------------------------------------------
\* A face that is constructed by the caller and is in no mesh.

\* The greatest number of vertices of such a face.
MaxArity == 4

\* The vertex lists given to Face(vertices): every list of up to MaxArity
\* indices.
VertexLists == UNION { [1 .. k -> 0 .. 2] : k \in 0 .. MaxArity }

\* Face<T> face(vertices); face.get_edges()
Face_get_edges(vertex_indices) ==
    /\ last' = [op |-> "get_edges", arg |-> vertex_indices, status |-> "ok",
                value |-> get_edges(Face(vertex_indices))]
    /\ UNCHANGED <<vertices_, edges_, faces_, edge_map_, topology_valid_,
                   bounding_box_dirty_, bounding_box_, ref, issued, files>>

NextFace ==
    \E vertex_indices \in VertexLists :
        Face_get_edges(vertex_indices) /\ UNCHANGED utils

SpecFace == Init /\ [][NextFace]_vars

-----------------------------------------------------------------------------
\* utils::ThreadPool.  Worker threads, the thread that destroys the pool and
\* a client thread that enqueues tasks run interleaved; each step below is
\* one access to the shared members.

\* The greatest number of worker threads, and of tasks the client enqueues.
MaxWorkers == 2
MaxTasks == 2

\* queue_mutex_ is held by nobody (0), by worker w (w >= 1), or by the
\* client thread.
Client == -1

at(w, pc) == w \in DOMAIN workers_ /\ workers_[w].pc = pc

goto(w, pc) == [workers_ EXCEPT ![w].pc = pc]

tasks_kept(tasks) == tasks

\* tasks_.pop()
tasks_pop(tasks) == Tail(tasks)

\* ThreadPool(num_threads): the workers start at the top of their loop.
ThreadPool(num_threads) ==
    /\ destructor = "unconstructed"
    /\ workers_' = [w \in 1 .. num_threads |-> [pc |-> "lock", task |-> 0]]
    /\ stop_' = FALSE
    /\ tasks_' = << >>
    /\ executed' = [t \in 1 .. MaxTasks |-> 0]
    /\ destructor' = "alive"
    /\ UNCHANGED <<queue_mutex_, condition_, client>>
    /\ UNCHANGED <<library, last, parallel, memory>>

\* std::unique_lock<std::mutex> lock(queue_mutex_), and the lock taken
\* again by a worker that wait() has woken.
worker_lock(w) ==
    /\ at(w, "lock") \/ at(w, "notified")
    /\ queue_mutex_ = 0
    /\ queue_mutex_' = w
    /\ workers_' = goto(w, "wait")
    /\ UNCHANGED <<tasks_, stop_, condition_, destructor, client, executed>>
    /\ UNCHANGED <<library, last, parallel, memory>>

\* condition_.wait(lock, pred) evaluates pred with the lock held: on true
\* it returns, on false it goes on to block.
worker_wait_predicate(w) ==
    /\ at(w, "wait")
    /\ workers_' = goto(w, IF stop_ \/ tasks_ # << >> THEN "locked"
                                                       ELSE "block")
    /\ UNCHANGED <<tasks_, stop_, queue_mutex_, condition_, destructor,
                   client, executed>>
    /\ UNCHANGED <<library, last, parallel, memory>>

\* condition_.wait(lock, pred), pred false: the worker releases the lock
\* and blocks in one step, until it is notified.
worker_wait_block(w) ==
    /\ at(w, "block")
    /\ queue_mutex_' = 0
    /\ condition_' = condition_ \cup {w}
    /\ workers_' = goto(w, "blocked")
    /\ UNCHANGED <<tasks_, stop_, destructor, client, executed>>
    /\ UNCHANGED <<library, last, parallel, memory>>

\* if (stop_ && tasks_.empty()) return; task = tasks_.front(); tasks_.pop();
\* and the end of the lock's scope.
worker_take(w) ==
    /\ at(w, "locked")
    /\ IF stop_ /\ tasks_ = << >>
       THEN /\ workers_' = goto(w, "exited")
            /\ tasks_' = tasks_
       ELSE /\ workers_' = [workers_ EXCEPT ![w] = [pc |-> "run",
                                                    task |-> Head(tasks_)]]
            /\ tasks_' = tasks_pop(tasks_)
    /\ queue_mutex_' = 0
    /\ UNCHANGED <<stop_, condition_, destructor, client, executed>>
    /\ UNCHANGED <<library, last, parallel, memory>>

\* task(); and back to the top of the loop.
worker_run(w) ==
    /\ at(w, "run")
    /\ executed' = [executed EXCEPT ![workers_[w].task] = @ + 1]
    /\ workers_' = [workers_ EXCEPT ![w] = [pc |-> "lock", task |-> 0]]
    /\ UNCHANGED <<tasks_, stop_, queue_mutex_, condition_, destructor,
                   client>>
    /\ UNCHANGED <<library, last, parallel, memory>>

\* The workers blocked in wait() that a notification wakes.
notify_all(waiting) == waiting

notified(woken) ==
    [w \in DOMAIN workers_ |->
        IF w \in woken THEN [workers_[w] EXCEPT !.pc = "notified"]
        ELSE workers_[w]]

\* ~ThreadPool: stop_.store(true), without queue_mutex_.
destructor_stop ==
    /\ destructor = "alive"
    /\ stop_' = TRUE
    /\ destructor' = "notify_all"
    /\ UNCHANGED <<tasks_, queue_mutex_, condition_, workers_, client,
                   executed>>
    /\ UNCHANGED <<library, last, parallel, memory>>

\* ~ThreadPool: condition_.notify_all()
destructor_notify_all ==
    /\ destructor = "notify_all"
    /\ workers_' = notified(notify_all(condition_))
    /\ condition_' = condition_ \ notify_all(condition_)
    /\ destructor' = "join"
    /\ UNCHANGED <<tasks_, stop_, queue_mutex_, client, executed>>
    /\ UNCHANGED <<library, last, parallel, memory>>

\* ~ThreadPool: worker.join() for every worker
destructor_join ==
    /\ destructor = "join"
    /\ \A w \in DOMAIN workers_ : at(w, "exited")
    /\ destructor' = "returned"
    /\ UNCHANGED <<tasks_, stop_, queue_mutex_, condition_, workers_, client,
                   executed>>
    /\ UNCHANGED <<library, last, parallel, memory>>

\* enqueue: std::unique_lock<std::mutex> lock(queue_mutex_)
enqueue_lock ==
    /\ destructor \in {"alive", "notify_all", "join"}
    /\ client.pc = "idle"
    /\ client.task <= MaxTasks
    /\ queue_mutex_ = 0
    /\ queue_mutex_' = Client
    /\ client' = [client EXCEPT !.pc = "locked"]
    /\ UNCHANGED <<tasks_, stop_, condition_, workers_, destructor, executed>>
    /\ UNCHANGED <<library, last, parallel, memory>>

\* enqueue: if (stop_) throw std::runtime_error(...); tasks_.emplace(...);
\* and the end of the lock's scope.
enqueue_emplace ==
    /\ client.pc = "locked"
    /\ IF stop_
       THEN /\ tasks_' = tasks_
            /\ client' = [client EXCEPT !.pc = "idle", !.task = @ + 1,
                                        !.thrown = @ \cup {client.task}]
       ELSE /\ tasks_' = Append(tasks_, client.task)
            /\ client' = [client EXCEPT !.pc = "notify_one"]
    /\ queue_mutex_' = 0
    /\ UNCHANGED <<stop_, condition_, workers_, destructor, executed>>
    /\ UNCHANGED <<library, last, parallel, memory>>

\* enqueue: condition_.notify_one(); return result;
enqueue_notify_one ==
    /\ client.pc = "notify_one"
    /\ \E woken \in (IF condition_ = {} THEN {{}}
                     ELSE {{w} : w \in condition_}) :
           /\ workers_' = notified(woken)
           /\ condition_' = condition_ \ woken
    /\ client' = [client EXCEPT !.pc = "idle", !.task = @ + 1,
                                !.returned = @ \cup {client.task}]
    /\ UNCHANGED <<tasks_, stop_, queue_mutex_, destructor, executed>>
    /\ UNCHANGED <<library, last, parallel, memory>>

worker(w) ==
    \/ worker_lock(w)
    \/ worker_wait_predicate(w)
    \/ worker_wait_block(w)
    \/ worker_take(w)
    \/ worker_run(w)

NextPool ==
    \/ \E num_threads \in 1 .. MaxWorkers : ThreadPool(num_threads)
    \/ \E w \in 1 .. MaxWorkers : worker_lock(w)
    \/ \E w \in 1 .. MaxWorkers : worker_wait_predicate(w)
    \/ \E w \in 1 .. MaxWorkers : worker_wait_block(w)
    \/ \E w \in 1 .. MaxWorkers : worker_take(w)
    \/ \E w \in 1 .. MaxWorkers : worker_run(w)
    \/ destructor_stop
    \/ destructor_notify_all
    \/ destructor_join
    \/ enqueue_lock
    \/ enqueue_emplace
    \/ enqueue_notify_one

\* A pool that is constructed, used by one client and destroyed.
SpecPool == Init /\ [][NextPool]_vars

\* The scheduler runs every thread that can take a step: each worker, the
\* destroying thread and the client.
SpecPoolFair ==
    /\ SpecPool
    /\ \A w \in 1 .. MaxWorkers : WF_vars(worker(w))
    /\ WF_vars(destructor_stop \/ destructor_notify_all \/ destructor_join)
    /\ WF_vars(enqueue_lock \/ enqueue_emplace \/ enqueue_notify_one)

-----------------------------------------------------------------------------
\* utils::parallel_for_index.  The chunk threads and the calling thread run
\* interleaved; each step is one invocation of func.

\* The greatest start, length of the range and num_threads of a call.
MaxStart == 1
MaxLength == 6
MaxThreads == 3

\* The indices func can be invoked for.
Indices == 0 .. MaxStart + MaxLength

first_of_range(start, chunk_size, num_threads) == start

\* chunk_start after the loop that starts the threads
chunk_start_of_main(start, chunk_size, num_threads) ==
    start + (num_threads - 1) * chunk_size

\* threads.emplace_back(...) for i = 0 .. num_threads - 2: thread i runs
\* func on [chunk_start, chunk_end).
threads_emplaced(start, chunk_size, num_threads) ==
    [i \in 1 .. num_threads - 1 |->
        [next |-> start + (i - 1) * chunk_size,
         end |-> start + i * chunk_size]]

\* parallel_for_index(start, end, func, num_threads), up to the first
\* invocation of func by the calling thread, with start <= end and
\* num_threads >= 1.
parallel_for_index(start, end, num_threads) ==
    /\ loop.pc = "idle"
    /\ LET length_ == end - start
           chunk_size == length_ \div num_threads
       IN  IF length_ = 0
           THEN /\ loop' = [pc |-> "returned", start |-> start, end |-> end,
                            next |-> start]
                /\ threads' = << >>
           ELSE IF num_threads = 1 \/ length_ < num_threads
           THEN /\ loop' = [pc |-> "running", start |-> start, end |-> end,
                            next |-> start]
                /\ threads' = << >>
           ELSE /\ loop' = [pc |-> "running", start |-> start, end |-> end,
                            next |-> chunk_start_of_main(start, chunk_size,
                                                         num_threads)]
                /\ threads' = threads_emplaced(start, chunk_size, num_threads)
    /\ invoked' = [i \in Indices |-> 0]
    /\ UNCHANGED <<library, last, pool, memory>>

\* A chunk thread: func(j); ++j
thread_func(t) ==
    /\ t \in DOMAIN threads
    /\ threads[t].next < threads[t].end
    /\ invoked' = [invoked EXCEPT ![threads[t].next] = @ + 1]
    /\ threads' = [threads EXCEPT ![t].next = @ + 1]
    /\ UNCHANGED loop
    /\ UNCHANGED <<library, last, pool, memory>>

\* The calling thread: func(i); ++i
main_func ==
    /\ loop.pc = "running"
    /\ loop.next < loop.end
    /\ invoked' = [invoked EXCEPT ![loop.next] = @ + 1]
    /\ loop' = [loop EXCEPT !.next = @ + 1]
    /\ UNCHANGED threads
    /\ UNCHANGED <<library, last, pool, memory>>

\* The calling thread: thread.join() for every thread, and the return.
main_join ==
    /\ loop.pc = "running"
    /\ loop.next >= loop.end
    /\ \A t \in DOMAIN threads : threads[t].next >= threads[t].end
    /\ loop' = [loop EXCEPT !.pc = "returned"]
    /\ UNCHANGED <<threads, invoked>>
    /\ UNCHANGED <<library, last, pool, memory>>

NextParallel ==
    \/ \E start \in 0 .. MaxStart, length_ \in 0 .. MaxLength,
          num_threads \in 1 .. MaxThreads :
           parallel_for_index(start, start + length_, num_threads)
    \/ \E t \in 1 .. MaxThreads : thread_func(t)
    \/ main_func
    \/ main_join

\* One call of parallel_for_index.
SpecParallel == Init /\ [][NextParallel]_vars

-----------------------------------------------------------------------------
\* utils::MemoryPool.  A pointer into the pool is <<block, index>>: the
\* position of its block in blocks_ and of its object in the block, both
\* counted from 0.  live tells, for each pointer the caller holds, how many
\* allocations that it has neither given back nor lost to clear() returned
\* that pointer.

\* The greatest block_size of a pool, and the greatest number of blocks a
\* pool grows to.
MaxBlockSize == 2
MaxBlocks == 3

block_size_ == Len(blocks_[1].used)

\* Block(size)
Block(size) == [used |-> [i \in 1 .. size |-> FALSE], next_free |-> 0]

used_kept(used, i) == used

\* block.used[i] = true
used_set(used, i) == [used EXCEPT ![i + 1] = TRUE]

\* for (i = from; i < block_size_; ++i) if (!block.used[i]): the first such
\* i, or block_size_ when there is none.
first_unused(block, from) ==
    LET unused == {i \in from .. Len(block.used) - 1 : ~block.used[i + 1]}
    IN  IF unused = {} THEN Len(block.used)
        ELSE CHOOSE i \in unused : \A j \in unused : i <= j

\* The slot taken in a block: used[i] = true; next_free = i + 1
taken(block, i) == [used |-> used_set(block.used, i), next_free |-> i + 1]

\* allocate(), from block block_idx on: the blocks, current_block_ and the
\* pointer returned.
RECURSIVE allocate_from(_, _)
allocate_from(blocks, block_idx) ==
    IF block_idx >= Len(blocks)
    THEN [blocks |-> Append(blocks,
                            taken(Block(Len(blocks[1].used)), 0)),
          current_block |-> Len(blocks),
          ptr |-> <<Len(blocks), 0>>]
    ELSE LET block == blocks[block_idx + 1]
             i == first_unused(block, block.next_free)
             again == first_unused(block, 0)
         IN  IF i < Len(block.used)
             THEN [blocks |-> [blocks EXCEPT ![block_idx + 1] =
                                                 taken(block, i)],
                   current_block |-> block_idx,
                   ptr |-> <<block_idx, i>>]
             ELSE IF again < Len(block.used)
             THEN [blocks |-> [blocks EXCEPT ![block_idx + 1] =
                                                 taken(block, again)],
                   current_block |-> block_idx,
                   ptr |-> <<block_idx, again>>]
             ELSE allocate_from(
                      [blocks EXCEPT ![block_idx + 1].next_free = 0],
                      block_idx + 1)

\* allocated_count()
allocated_count ==
    Cardinality({p \in (0 .. Len(blocks_) - 1) \X (0 .. block_size_ - 1) :
                     blocks_[p[1] + 1].used[p[2] + 1]})

\* capacity()
capacity == Len(blocks_) * block_size_

\* The caller keeps the pointer allocate() returned.
held(allocations, ptr) ==
    [p \in DOMAIN allocations \cup {ptr} |->
        IF p \in DOMAIN allocations
        THEN allocations[p] + (IF p = ptr THEN 1 ELSE 0)
        ELSE 1]

\* The caller gives one allocation back.
given_back(allocations, ptr) ==
    [p \in {q \in DOMAIN allocations : q # ptr \/ allocations[q] > 1} |->
        allocations[p] - (IF p = ptr THEN 1 ELSE 0)]

\* MemoryPool(block_size)
MemoryPool(block_size) ==
    /\ blocks_ = << >>
    /\ blocks_' = <<Block(block_size)>>
    /\ current_block_' = 0
    /\ live' = << >>
    /\ last' = [op |-> "MemoryPool", arg |-> <<block_size>>,
                status |-> "ok", value |-> 0]
    /\ UNCHANGED <<library, pool, parallel>>

\* T* allocate()
allocate ==
    /\ blocks_ # << >>
    /\ LET result == allocate_from(blocks_, current_block_)
       IN  /\ Len(result.blocks) <= MaxBlocks
           /\ blocks_' = result.blocks
           /\ current_block_' = result.current_block
           /\ live' = held(live, result.ptr)
           /\ last' = [op |-> "allocate", arg |-> << >>, status |-> "ok",
                       value |-> result.ptr]
    /\ UNCHANGED <<library, pool, parallel>>

\* deallocate(ptr) with a pointer the caller holds: the block whose objects
\* contain ptr is the block ptr was taken from.
deallocate(ptr) ==
    /\ ptr \in DOMAIN live
    /\ LET index == ptr[2]
       IN  /\ blocks_' = [blocks_ EXCEPT
                             ![ptr[1] + 1].used[index + 1] = FALSE,
                             ![ptr[1] + 1].next_free = Min(@, index)]
           /\ last' = [op |-> "deallocate", arg |-> ptr, status |-> "ok",
                       value |-> 0]
    /\ live' = given_back(live, ptr)
    /\ UNCHANGED current_block_
    /\ UNCHANGED <<library, pool, parallel>>

\* clear(): every slot is free again and no pointer given out before is
\* live any more.
MemoryPool_clear ==
    /\ blocks_ # << >>
    /\ blocks_' = [b \in DOMAIN blocks_ |-> Block(block_size_)]
    /\ current_block_' = 0
    /\ live' = << >>
    /\ last' = [op |-> "clear", arg |-> << >>, status |-> "ok", value |-> 0]
    /\ UNCHANGED <<library, pool, parallel>>

NextMemory ==
    \/ \E block_size \in 1 .. MaxBlockSize : MemoryPool(block_size)
    \/ allocate
    \/ \E ptr \in (0 .. MaxBlocks - 1) \X (0 .. MaxBlockSize - 1) :
           deallocate(ptr)
    \/ MemoryPool_clear

\* A pool and one caller that allocates from it.
SpecMemory == Init /\ [][NextMemory]_vars

-----------------------------------------------------------------------------
\* Vocabulary of the properties.

\* The set of elements of a sequence.
Range(seq) == {seq[i] : i \in 1 .. Len(seq)}

\* The k-th coordinates of the vertex positions.
Coords(k) == {vertices_[i].position[k] : i \in 1 .. Len(vertices_)}

Least(S) == CHOOSE m \in S : \A c \in S : m <= c

Greatest(S) == CHOOSE m \in S : \A c \in S : c <= m

\* The componentwise minimum and maximum of the vertex positions of a
\* mesh that has a vertex.
ExtentOfVertices ==
    [min_point |-> <<Least(Coords(1)), Least(Coords(2)), Least(Coords(3))>>,
     max_point |-> <<Greatest(Coords(1)), Greatest(Coords(2)),
                     Greatest(Coords(3))>>]

\* The undirected vertex pairs of face number f: consecutive vertices in
\* cyclic order, as sets.
PairsOfFace(f) ==
    LET vs == faces_[f].vertices IN
    {{vs[i], vs[(i % Len(vs)) + 1]} : i \in 1 .. Len(vs)}

\* Every undirected vertex pair some face has.
PairsOfMesh == UNION {PairsOfFace(f) : f \in 1 .. Len(faces_)}

\* The ids of the faces that have the pair.
FacesWithPair(pair) == {f - 1 : f \in {g \in 1 .. Len(faces_) : pair \in PairsOfFace(g)}}

\* No face repeats a vertex index.
FacesClean ==
    \A f \in 1 .. Len(faces_) :
        Cardinality(Range(faces_[f].vertices)) = Len(faces_[f].vertices)

\* All vertex positions differ.
PositionsDistinct ==
    Cardinality({vertices_[i].position : i \in 1 .. Len(vertices_)})
        = Len(vertices_)

-----------------------------------------------------------------------------
\* C1: ID density.  In every reachable state vertices_[i].id = i and
\* faces_[i].id = i for every valid index i, and the id a successful
\* add_vertex or add_face has just returned is the index at which the new
\* element is stored, which is the element count before the call.
C1_IdDensity ==
    /\ \A i \in 1 .. Len(vertices_) : vertices_[i].id = i - 1
    /\ \A i \in 1 .. Len(faces_) : faces_[i].id = i - 1
    /\ last.op = "add_vertex" =>
           /\ last.value = Len(vertices_) - 1
           /\ vertices_[last.value + 1].position = last.arg
    /\ (last.op = "add_face" /\ last.status = "ok") =>
           /\ last.value = Len(faces_) - 1
           /\ faces_[last.value + 1].vertices = last.arg

\* A mesh of three vertices and two faces, the second face just added.
C1_Witness ==
    /\ Len(vertices_) = 3
    /\ Len(faces_) = 2
    /\ last.op = "add_face"
    /\ last.status = "ok"
    /\ last.value = 1

\* C2: add_face rejection is atomic.  A step that is a failed add_face
\* call (InvalidArgument or OutOfRange, the invalid index at any position)
\* leaves vertex_count(), face_count(), edge_count() and the stored
\* vertices, faces and edges as they were.
C2_RejectionAtomic ==
    [][(last'.op = "add_face" /\ last'.status # "ok") =>
           /\ Len(vertices_') = Len(vertices_)
           /\ Len(faces_') = Len(faces_)
           /\ Len(edges_') = Len(edges_)
           /\ mesh' = mesh]_vars

\* A mesh that holds faces has just rejected an index list whose invalid
\* index is in the middle.
C2_Witness ==
    /\ last.op = "add_face"
    /\ last.status = "OutOfRange"
    /\ last.arg = <<0, MaxVerts, 1>>
    /\ Len(vertices_) = MaxVerts
    /\ Len(faces_) >= 1

\* C3: add_face fails with InvalidArgument when fewer than 3 indices are
\* given (whatever the indices are), else with OutOfRange when some index
\* is >= vertex_count(), and otherwise succeeds and face_count() grows by
\* exactly 1.  add_triangle and add_quad are calls of add_face.
C3_AddFaceErrors ==
    [][last'.op = "add_face" =>
           LET ix == last'.arg
               n == Len(vertices_)
               bad == {i \in 1 .. Len(ix) : ix[i] >= n} IN
           /\ Len(ix) < 3 => last'.status = "InvalidArgument"
           /\ (Len(ix) >= 3 /\ bad # {}) => last'.status = "OutOfRange"
           /\ (Len(ix) >= 3 /\ bad = {}) =>
                  /\ last'.status = "ok"
                  /\ Len(faces_') = Len(faces_) + 1
           /\ last'.status # "ok" => Len(faces_') = Len(faces_)]_vars

\* A 1-index face on an empty mesh has just been rejected as
\* InvalidArgument, though its index is out of range too.
C3_Witness ==
    /\ last.op = "add_face"
    /\ last.arg = <<0>>
    /\ Len(vertices_) = 0
    /\ last.status = "InvalidArgument"

\* C4: referential integrity.  In every state reachable through
\* add_vertex, add_face, add_triangle, add_quad and clear, every VertexId
\* stored in a face is < vertex_count() and every FaceId stored in an
\* edge's adjacent_faces is < face_count().
C4_ReferentialIntegrity ==
    /\ \A f \in 1 .. Len(faces_) : \A i \in 1 .. Len(faces_[f].vertices) :
           faces_[f].vertices[i] < Len(vertices_)
    /\ \A e \in 1 .. Len(edges_) : \A i \in 1 .. Len(edges_[e].adjacent_faces) :
           edges_[e].adjacent_faces[i] < Len(faces_)

\* A triangle and a quad stored over the three vertices of the mesh.
C4_Witness ==
    /\ Len(vertices_) = 3
    /\ Len(faces_) = 2
    /\ faces_[1].vertices = <<0, 1, 2>>
    /\ faces_[2].vertices = <<0, 1, 2, 0>>

\* C5: edge topology is maintained by add_face.  edge_count() equals the
\* number of distinct undirected vertex pairs formed by consecutive
\* (cyclic) vertices over all faces (single triangle: 3).  Stated for the
\* meshes whose faces repeat no vertex index.
C5_EdgeCount == FacesClean => Len(edges_) = Cardinality(PairsOfMesh)

\* C6: edge adjacency and boundary status.  For every undirected vertex
\* pair that occurs in some face there is an edge whose adjacent_faces
\* lists exactly the faces containing that pair, and whose is_boundary is
\* true iff exactly one face is adjacent.  Stated for the meshes whose
\* faces repeat no vertex index.
C6_EdgeAdjacency ==
    FacesClean =>
    \A pair \in PairsOfMesh :
        \E e \in 1 .. Len(edges_) :
            /\ {edges_[e].v1, edges_[e].v2} = pair
            /\ Range(edges_[e].adjacent_faces) = FacesWithPair(pair)
            /\ edges_[e].is_boundary
                   <=> (Len(edges_[e].adjacent_faces) = 1)

\* C7: bounding box correctness.  On a mesh with at least one vertex,
\* built by add_vertex calls, bounding_box() returns the componentwise
\* minimum and maximum over all vertex positions, also when vertices were
\* added after an earlier bounding_box() read.
C7_BoundingBoxCorrect ==
    (last.op = "bounding_box" /\ Len(vertices_) >= 1) =>
        last.value = ExtentOfVertices

\* bounding_box() has just returned min (-1,-2,-3), max (4,5,6) for the
\* three vertices of the test.
C7_Witness ==
    /\ last.op = "bounding_box"
    /\ Len(vertices_) = 3
    /\ vertices_[1].position = <<-1, -2, -3>>
    /\ vertices_[2].position = <<4, 5, 6>>
    /\ vertices_[3].position = <<2, 1, 0>>
    /\ last.value = [min_point |-> <<-1, -2, -3>>, max_point |-> <<4, 5, 6>>]

\* C8: bounding-box cache coherence.  After any interleaving of
\* add_vertex, clear, bounding_box() reads and position writes through
\* the reference the non-const get_vertex returned, whenever the dirty
\* flag is clear the cached box is the componentwise minimum and maximum
\* of the current vertex positions.
C8_CacheCoherent ==
    (~bounding_box_dirty_ /\ Len(vertices_) >= 1) =>
        bounding_box_ = ExtentOfVertices

\* C9: validate_topology() returns false if two vertices have identical
\* positions, or a face has fewer than 3 vertices or repeats a vertex
\* index, or a stored edge has more than 2 adjacent faces, and true
\* otherwise.
C9_ValidateTopologyPredicate ==
    last.op = "validate_topology" =>
        (last.value <=>
            ~ \/ ~PositionsDistinct
              \/ \E f \in 1 .. Len(faces_) :
                     \/ Len(faces_[f].vertices) < 3
                     \/ Cardinality(Range(faces_[f].vertices))
                            < Len(faces_[f].vertices)
              \/ \E e \in 1 .. Len(edges_) :
                     Len(edges_[e].adjacent_faces) > 2)

\* validate_topology() has just returned false for a mesh whose first and
\* last vertex have the same position and whose only face is clean.
C9_Witness ==
    /\ last.op = "validate_topology"
    /\ last.value = FALSE
    /\ Len(vertices_) = 3
    /\ vertices_[1].position = vertices_[3].position
    /\ vertices_[1].position # vertices_[2].position
    /\ Len(faces_) = 1
    /\ faces_[1].vertices = <<0, 1, 2>>

\* C10: non-manifold detection.  On a mesh built through add_vertex and
\* add_face, all positions distinct, in which some undirected vertex pair
\* is shared by more than two faces, validate_topology() returns false.
C10_NonManifoldDetected ==
    (/\ last.op = "validate_topology"
     /\ PositionsDistinct
     /\ \E pair \in PairsOfMesh : Cardinality(FacesWithPair(pair)) > 2) =>
        last.value = FALSE

\* C11: face invariant.  Every face stored in a mesh has at least 3
\* vertex indices and no vertex index occurs twice within the same face,
\* after any sequence of add_face, add_triangle and add_quad calls.
C11_FaceInvariant ==
    \A f \in 1 .. Len(faces_) :
        /\ Len(faces_[f].vertices) >= 3
        /\ Cardinality(Range(faces_[f].vertices)) = Len(faces_[f].vertices)

\* C12: validate_topology() is a pure query.  In every mesh state, the
\* empty mesh included, a validate_topology() step returns a boolean
\* without raising an error and leaves vertices, faces, edges, the edge
\* index, the cached bounding box and its dirty flag unchanged.
C12_ValidateTopologyPure ==
    [][last'.op = "validate_topology" =>
           /\ last'.status = "ok"
           /\ last'.value \in BOOLEAN
           /\ UNCHANGED <<vertices_, faces_, edges_, edge_map_,
                          bounding_box_, bounding_box_dirty_>>]_vars

\* validate_topology() has just returned on a mesh with vertices and a
\* face whose bounding-box cache is dirty and was never computed.
C12_Witness ==
    /\ last.op = "validate_topology"
    /\ last.value \in BOOLEAN
    /\ Len(vertices_) = 3
    /\ Len(faces_) >= 1
    /\ bounding_box_dirty_
    /\ bounding_box_ = reset

\* C15: clear() empties the vertex, edge and face arrays and the edge
\* index and sets the bounding-box dirty flag, from any prior state;
\* right after it vertex_count() = face_count() = edge_count() = 0 and
\* empty() is true.
C15_ClearEmpties ==
    last.op = "clear" =>
        /\ vertices_ = << >>
        /\ edges_ = << >>
        /\ faces_ = << >>
        /\ edge_map_ = {}
        /\ bounding_box_dirty_
        /\ Len(vertices_) = 0 /\ Len(faces_) = 0 /\ Len(edges_) = 0
        /\ empty

\* clear() has just run on a mesh whose cached box had been computed for
\* its vertices.
C15_Witness ==
    /\ last.op = "clear"
    /\ bounding_box_ # reset
    /\ bounding_box_dirty_
    /\ empty

\* C13: get_vertex(id), get_face(id) and get_edge(id) fail with
\* OutOfRange exactly when id >= the element count of their array, and
\* otherwise return the element stored at index id; a failed access
\* changes no mesh state, the bounding-box dirty flag included.
C13_CheckedAccess ==
    [][last'.op \in {"get_vertex", "get_vertex_const", "get_face", "get_edge"}
       => LET id == last'.arg
              array == CASE last'.op = "get_face" -> faces_
                         [] last'.op = "get_edge" -> edges_
                         [] OTHER -> vertices_ IN
          /\ (last'.status = "OutOfRange") <=> (id >= Len(array))
          /\ id < Len(array) =>
                 /\ last'.status = "ok"
                 /\ last'.value = array[id + 1]
                 /\ last'.value.id = id
          /\ last'.status = "OutOfRange" =>
                 UNCHANGED <<vertices_, edges_, faces_, edge_map_,
                             topology_valid_, bounding_box_dirty_,
                             bounding_box_>>]_vars

\* The non-const get_vertex has just failed on a mesh with vertices whose
\* bounding-box cache is clean.
C13_Witness ==
    /\ last.op = "get_vertex"
    /\ last.status = "OutOfRange"
    /\ last.arg = Len(vertices_)
    /\ Len(vertices_) >= 1
    /\ ~bounding_box_dirty_

\* C14: over any sequence of add_vertex, add_face and clear calls on one
\* mesh, each returned VertexId (resp. FaceId) is strictly greater than every
\* VertexId (resp. FaceId) that mesh returned earlier.
C14_NeverReused ==
    [][/\ last'.op = "add_vertex" => last'.value > issued.vertex
       /\ (last'.op = "add_face" /\ last'.status = "ok")
              => last'.value > issued.face]_vars

\* C14 (amended): each returned VertexId (resp. FaceId) is strictly greater
\* than every VertexId (resp. FaceId) the mesh has returned since its
\* construction or its most recent clear(); the first id returned into an
\* empty array is 0, so clear() restarts the numbering.
C14_MonotoneSinceClear ==
    [][/\ last'.op = "add_vertex" =>
              /\ last'.value > issued.vertex_since_clear
              /\ vertices_ = << >> => last'.value = 0
       /\ (last'.op = "add_face" /\ last'.status = "ok") =>
              /\ last'.value > issued.face_since_clear
              /\ faces_ = << >> => last'.value = 0]_vars

\* A vertex and a face have been added after a clear() that followed the
\* return of greater ids: the ids returned now are not new to the caller.
C14_Witness ==
    /\ issued.vertex > issued.vertex_since_clear
    /\ issued.vertex_since_clear >= 1
    /\ issued.face > issued.face_since_clear
    /\ issued.face_since_clear >= 0
    /\ last.op = "add_face"
    /\ last.status = "ok"

\* C16: calling compute_normals() twice in a row, with no call in between,
\* leaves every face normal and every vertex normal as the first call set it.
C16_NormalIdempotence ==
    [][(last.op = "compute_normals" /\ last'.op = "compute_normals")
           => (vertices_' = vertices_ /\ faces_' = faces_)]_vars

\* compute_normals() has set the normal of a face and of its vertices on a
\* mesh that also has a face without a normal.
C16_Witness ==
    /\ last.op = "compute_normals"
    /\ \E f \in 1 .. Len(faces_) : faces_[f].normal = <<0, 0, Unit>>
    /\ \E f \in 1 .. Len(faces_) : ~has_normal(faces_[f])
    /\ \A v \in 1 .. Len(vertices_) : vertices_[v].normal = <<0, 0, Unit>>

\* The sequence in the opposite order.
Reverse(seq) == [i \in 1 .. Len(seq) |-> seq[Len(seq) + 1 - i]]

\* The positions of the vertices of a face, in the face's order.
Corners(face) ==
    [i \in 1 .. Len(face.vertices) |-> vertices_[face.vertices[i] + 1].position]

\* (v1 - v0) x (v2 - v0) for the first three corners of a face.
CrossOfCorners(face) ==
    LET c == Corners(face) IN cross(minus(c[2], c[1]), minus(c[3], c[1]))

UnitTriangle == << <<0, 0, 0>>, <<1, 0, 0>>, <<0, 1, 0>> >>

\* C17: once the face normals are computed, for every triangular face the
\* Newell vector before normalisation equals the cross product
\* (v1 - v0) x (v2 - v0) of its vertex positions and the stored normal is that
\* vector normalised; the counter-clockwise XY-plane triangle
\* (0,0,0),(1,0,0),(0,1,0) gets the normal (0,0,1); and the face with the
\* vertex order reversed gets the negated normal.
C17_NewellDirection ==
    last.op \in {"compute_face_normals", "compute_normals"} =>
        \A f \in 1 .. Len(faces_) :
            is_triangle(faces_[f]) =>
                LET face == faces_[f]
                    reversed == [face EXCEPT !.vertices = Reverse(@)] IN
                /\ newell(vertices_, face, 0) = CrossOfCorners(face)
                /\ face.normal = normalize(CrossOfCorners(face))
                /\ Corners(face) = UnitTriangle => face.normal = <<0, 0, Unit>>
                /\ newell(vertices_, reversed, 0)
                       = negated(newell(vertices_, face, 0))
                /\ compute_face_normal(vertices_, reversed)
                       = negated(face.normal)
                /\ \A g \in 1 .. Len(faces_) :
                       faces_[g].vertices = reversed.vertices
                           => faces_[g].normal = negated(face.normal)

\* The face normals have been computed on a mesh that holds the unit
\* triangle counter-clockwise and the same triangle reversed.
C17_Witness ==
    /\ last.op = "compute_face_normals"
    /\ \E f, g \in 1 .. Len(faces_) :
           /\ Corners(faces_[f]) = UnitTriangle
           /\ faces_[f].normal = <<0, 0, Unit>>
           /\ faces_[g].vertices = Reverse(faces_[f].vertices)
           /\ faces_[g].normal = <<0, 0, -Unit>>

\* The sum of a function of integers over its domain.
RECURSIVE SumOf(_, _)
SumOf(fn, S) ==
    IF S = {}
    THEN 0
    ELSE LET x == CHOOSE y \in S : TRUE IN fn[x] + SumOf(fn, S \ {x})

\* The fan triangles of the mesh: <<f, i>> stands for corners 1, i and i + 1
\* of face f.
FanPlaces ==
    UNION { { <<f, i>> : i \in 2 .. Len(faces_[f].vertices) - 1 } :
              f \in 1 .. Len(faces_) }

\* The position lists and index lists the mesh was built from.
PositionList == [i \in 1 .. Len(vertices_) |-> vertices_[i].position]

IndexListOfFaces == [i \in 1 .. Len(faces_) |-> faces_[i].vertices]

\* dot(v0, cross(vi, vi+1)) of one fan triangle.
SignedVolumeAt(place) ==
    LET c == Corners(faces_[place[1]]) IN
    dot(c[1], cross(c[place[2]], c[place[2] + 1]))

\* C18: volume() returns the absolute value of the sum, over the fan
\* triangles (v0, vi, vi+1) of all faces, of dot(v0, cross(vi, vi+1)),
\* divided by 6; for the cube with vertices at +-1 and the 12 triangles of
\* the test it returns 8.
C18_Volume ==
    last.op = "volume" =>
        /\ last.value
               = Div(Abs(SumOf([p \in FanPlaces |-> SignedVolumeAt(p)],
                               FanPlaces)) * Unit, 6)
        /\ (PositionList = CubePositions /\ IndexListOfFaces = CubeTriangles)
               => last.value = 8 * Unit

\* volume() has returned 8 for the cube of the test.
C18_Witness ==
    /\ last.op = "volume"
    /\ PositionList = CubePositions
    /\ IndexListOfFaces = CubeTriangles
    /\ last.value = 8 * Unit

\* 0.5 * |cross(v1 - v0, v2 - v0)| of one fan triangle.
TriangleAreaAt(place) ==
    LET c == Corners(faces_[place[1]]) IN
    Div(length(cross(minus(c[place[2]], c[1]), minus(c[place[2] + 1], c[1]))),
        2)

\* The faces of the mesh with every face replaced by the triangles of its
\* fan.
RECURSIVE FanTriangles(_, _)
FanTriangles(face, i) ==
    IF i >= Len(face.vertices)
    THEN << >>
    ELSE <<Face(<<face.vertices[1], face.vertices[i], face.vertices[i + 1]>>)>>
         \o FanTriangles(face, i + 1)

RECURSIVE Triangulated(_)
Triangulated(fs) ==
    IF fs = << >>
    THEN << >>
    ELSE FanTriangles(Head(fs), 2) \o Triangulated(Tail(fs))

\* C19: surface_area() returns the sum, over the fan triangles (vertex 0,
\* vertex i, vertex i+1) of all faces, of 0.5 * |cross(v1-v0, v2-v0)|; the
\* triangle (0,0,0),(1,0,0),(0,1,0) alone gives 0.5, the 12-triangle cube
\* with vertices at +-1 gives 24, and a mesh with quads gives the total of
\* the mesh that has the two fan triangles of each quad in its place.
C19_SurfaceArea ==
    last.op = "surface_area" =>
        /\ last.value
               = SumOf([p \in FanPlaces |-> TriangleAreaAt(p)], FanPlaces)
        /\ (Len(faces_) = 1 /\ Corners(faces_[1]) = UnitTriangle)
               => last.value = Div(Unit, 2)
        /\ (PositionList = CubePositions /\ IndexListOfFaces = CubeTriangles)
               => last.value = 24 * Unit
        /\ last.value = surface_area_value(vertices_, Triangulated(faces_))

\* surface_area() has returned 24 for the cube made of six quads.
C19_Witness ==
    /\ last.op = "surface_area"
    /\ PositionList = CubePositions
    /\ IndexListOfFaces = CubeQuads
    /\ last.value = 24 * Unit

\* The extension of a path: what follows its last '.', in lower case; a
\* path without a '.' has none.
HasExtension(path) == \E i \in 1 .. Len(path) : path[i] = "."

ExtensionOf(path) ==
    LET last_dot == Greatest({ i \in 1 .. Len(path) : path[i] = "." }) IN
    transform_tolower(SubSeq(path, last_dot + 1, Len(path)))

Dispatched(path) ==
    /\ HasExtension(path)
    /\ ExtensionOf(path) \in { <<"o", "b", "j">>, <<"p", "l", "y">> }

\* C20: load_mesh and save_mesh select the format from the lower-cased file
\* extension, so .OBJ and .Ply reach a loader or a writer; for .stl, .off
\* and every other path they fail with UnsupportedFormat, open no file and
\* return neither a mesh nor a success value.
C20_FormatDispatch ==
    [][last'.op \in {"load_mesh", "save_mesh"} =>
           IF Dispatched(last'.arg)
           THEN /\ last'.status # "UnsupportedFormat"
                /\ last'.arg \in (IF last'.op = "load_mesh"
                                  THEN files'.read ELSE files'.written)
           ELSE /\ last'.status = "UnsupportedFormat"
                /\ last'.value = "none"
                /\ files' = files]_vars

\* The same for the paths that contain a '.'.
DispatchOfDottedPaths ==
    [][(last'.op \in {"load_mesh", "save_mesh"} /\ HasExtension(last'.arg))
           => IF Dispatched(last'.arg)
              THEN /\ last'.status # "UnsupportedFormat"
                   /\ last'.arg \in (IF last'.op = "load_mesh"
                                     THEN files'.read ELSE files'.written)
              ELSE /\ last'.status = "UnsupportedFormat"
                   /\ last'.value = "none"
                   /\ files' = files]_vars

\* C21: when save_ply has written a mesh and load_ply reads the file next,
\* the mesh loaded has the same vertex count, the same faces (the same vertex
\* index sequence per face) and the same bounding box as the mesh saved.
C21_PlyRoundTrip ==
    [][(last.op = "save_ply" /\ last.value = TRUE /\ last'.op = "load_ply")
           => /\ last'.status = "ok"
              /\ Len(last'.value.vertices) = Len(vertices_)
              /\ [i \in 1 .. Len(last'.value.faces) |->
                      last'.value.faces[i].vertices] = IndexListOfFaces
              /\ compute_bounding_box(last'.value.vertices)
                     = compute_bounding_box(vertices_)]_vars

\* The same for the ASCII format and meshes whose coordinates have no more
\* than Precision digits.
RoundTripOfShortCoordinates ==
    [][(/\ last.op = "save_ply" /\ last.value = TRUE /\ last.arg = "ascii"
        /\ last'.op = "load_ply"
        /\ \A i \in 1 .. Len(vertices_), k \in 1 .. 3 :
               Abs(vertices_[i].position[k]) < TenTo(Precision))
           => /\ last'.status = "ok"
              /\ [i \in 1 .. Len(last'.value.vertices) |->
                      last'.value.vertices[i].position] = PositionList
              /\ [i \in 1 .. Len(last'.value.faces) |->
                      last'.value.faces[i].vertices] = IndexListOfFaces
              /\ compute_bounding_box(last'.value.vertices)
                     = compute_bounding_box(vertices_)]_vars

\* C22: load_ply of a file that cannot be opened, or whose header or declared
\* records cannot be parsed, or whose records are declared in a binary
\* format, raises an error and returns no mesh.
C22_PlyLoadReportsErrors ==
    [][(/\ last'.op = "load_ply"
        /\ \/ last.op = "file_damaged"
           \/ ~files.content.exists
           \/ (files.content.format # "ascii" /\ files.content.data # << >>))
           => (last'.status # "ok" /\ last'.value = "none")]_vars

\* The faces that have a normal and name vertex v (0-based) at least once.
FacesWithNormalAt(v) ==
    { f \in 1 .. Len(faces_) :
          has_normal(faces_[f]) /\ v \in Range(faces_[f].vertices) }

\* The sum of the normals of a set of faces.
SumOfNormals(F) ==
    <<SumOf([f \in F |-> faces_[f].normal[1]], F),
      SumOf([f \in F |-> faces_[f].normal[2]], F),
      SumOf([f \in F |-> faces_[f].normal[3]], F)>>

\* After compute_normals(): the face normals are those of the present
\* positions and every vertex normal is the normalised sum of the normals of
\* the faces that name the vertex, the zero vector when there is none.
VertexNormalsFromFaces ==
    /\ \A f \in 1 .. Len(faces_) :
           faces_[f].normal = compute_face_normal(vertices_, faces_[f])
    /\ \A v \in 1 .. Len(vertices_) :
           /\ vertices_[v].normal
                  = normalize_in_place(SumOfNormals(FacesWithNormalAt(v - 1)))
           /\ FacesWithNormalAt(v - 1) = {} => vertices_[v].normal = Zero3

\* C23: after compute_normals() every vertex normal equals the normalisation
\* of the sum of the freshly computed non-zero normals of the faces that
\* reference the vertex, and is zero for a vertex referenced by no face or
\* only by faces with a zero normal, whatever normal it had before.
C23_VertexNormalsFromFaces ==
    last.op = "compute_normals" => VertexNormalsFromFaces

\* The same for the meshes in which no face names a vertex twice.
VertexNormalsOfCleanFaces ==
    (last.op = "compute_normals" /\ FacesClean) => VertexNormalsFromFaces

\* C24: Face::get_edges on a face with k >= 3 vertices returns exactly k
\* pairs, the i-th made of vertex i and its successor in cyclic order (the
\* last with the first), the smaller index first; on a face with fewer than
\* 3 vertices it returns no pair.
C24_GetEdges ==
    last.op = "get_edges" =>
        LET vs == last.arg
            k == Len(vs)
            pairs == last.value IN
        /\ k < 3 => pairs = << >>
        /\ k >= 3 =>
               /\ Len(pairs) = k
               /\ \A i \in 1 .. k :
                      LET a == vs[i]
                          b == IF i = k THEN vs[1] ELSE vs[i + 1] IN
                      /\ {pairs[i][1], pairs[i][2]} = {a, b}
                      /\ Len(pairs[i]) = 2
                      /\ pairs[i][1] <= pairs[i][2]
                      /\ pairs[i] = <<Min(a, b), Max(a, b)>>

\* get_edges has returned the pairs of a quad whose last vertex has a
\* greater index than its first, so that the closing pair is exchanged.
C24_Witness ==
    /\ last.op = "get_edges"
    /\ Len(last.arg) = 4
    /\ last.arg[4] > last.arg[1]
    /\ Len(last.value) = 4
    /\ last.value[4] = <<last.arg[1], last.arg[4]>>

\* C25: bounding_box() of a mesh with no vertices, freshly constructed or
\* cleared, is the reset box, whose is_valid() is false; bounding_box() of a
\* mesh with at least one vertex has min_point <= max_point in every
\* component, so that its is_valid() is true.
C25_EmptyBoxInvalid ==
    last.op = "bounding_box" =>
        /\ Len(vertices_) = 0 =>
               /\ last.value = reset
               /\ ~BoundingBox_is_valid(last.value)
        /\ Len(vertices_) >= 1 =>
               /\ BoundingBox_is_valid(last.value)
               /\ \A k \in 1 .. 3 :
                      last.value.min_point[k] <= last.value.max_point[k]

\* bounding_box() has returned the reset box for a mesh without vertices
\* whose cache is now clean.
C25_Witness ==
    /\ last.op = "bounding_box"
    /\ Len(vertices_) = 0
    /\ ~bounding_box_dirty_
    /\ last.value.min_point = <<T_max, T_max, T_max>>
    /\ last.value.max_point = <<T_lowest, T_lowest, T_lowest>>

\* C26  Once the destructor has set stop_ and issued notify_all, no worker
\* remains blocked on the condition variable.
C26_NoWorkerLeftBlocked ==
    (destructor = "join" /\ client.pc = "idle")
        => \A w \in DOMAIN workers_ : ~at(w, "blocked")

\* With every thread scheduled fairly, the destructor returns once it has
\* started.
ShutdownReturns == (destructor = "notify_all") ~> (destructor = "returned")

\* Where task t is: how many places of the queue and how many workers hold
\* it, plus the times it has been run.
Holders(t) ==
    Cardinality({i \in DOMAIN tasks_ : tasks_[i] = t})
    + Cardinality({w \in DOMAIN workers_ : workers_[w].task = t})
    + executed[t]

AcceptedTaskRuns ==
    \A t \in 1 .. MaxTasks :
        (t \in client.returned) ~> (t \in DOMAIN executed /\ executed[t] = 1)

\* C28  func is never invoked for an index outside [start, end) and never
\* twice for one index, and when parallel_for_index has returned it has
\* been invoked once for every index of [start, end) and every chunk thread
\* has finished.
C28_EachIndexOnce ==
    /\ \A i \in DOMAIN invoked :
           invoked[i] <= (IF loop.start <= i /\ i < loop.end THEN 1 ELSE 0)
    /\ loop.pc = "returned"
           => /\ \A i \in DOMAIN invoked :
                     invoked[i] = (IF loop.start <= i /\ i < loop.end
                                   THEN 1 ELSE 0)
              /\ \A t \in DOMAIN threads : threads[t].next = threads[t].end

C28_Witness ==
    /\ loop.pc = "returned"
    /\ Len(threads) = 2
    /\ loop.end - loop.start = MaxLength
    /\ \A i \in loop.start .. loop.end - 1 : invoked[i] = 1

\* C29  No two live allocations refer to the same slot, and
\* allocated_count() is the number of live allocations.
C29_LiveSlotsDistinct ==
    blocks_ # << >>
        => /\ \A ptr \in DOMAIN live : live[ptr] = 1
           /\ allocated_count = Cardinality(DOMAIN live)

C29_Witness ==
    /\ blocks_ # << >>
    /\ last.op = "allocate"
    /\ last.value = <<1, 0>>
    /\ block_size_ = MaxBlockSize
    /\ \A i \in 1 .. block_size_ : blocks_[2].used[i]
    /\ Cardinality(DOMAIN live) = 2 * block_size_

\* The pool has a slot that is not in use.
SlotFree == allocated_count < capacity

\* C30  A call of allocate increases capacity() only if every slot of
\* every block is in use at the call.
C30_GrowsOnlyWhenFull ==
    [][(blocks_ # << >> /\ last'.op = "allocate"
            /\ capacity' > capacity)
          => ~SlotFree]_vars

====
